---- MODULE Spec2Model ----
(***************************************************************************)
(* Launch and fee-claim orchestration of src/src/api/bags.ts               *)
(* (class BagsProtocol), the interactive launch and claimAllFees of        *)
(* TokenLauncher (src/unnamed/part_000) and the `claim` command of         *)
(* src/src/main-enhanced.ts.  The protocol SDK, the RPC connection, fetch  *)
(* and the terminal are the environment: each awaited call is one step     *)
(* whose outcome (a value, an absent value, or a thrown error) the         *)
(* environment chooses.                                                    *)
(***************************************************************************)
EXTENDS Integers, Sequences, FiniteSets, TLC

\* ---------------------------------------------------------------- bounds
\* number of launchToken calls one behaviour makes
MaxLaunches == 2
\* claimable positions the protocol reports for the wallet
MaxPositions == 2
\* claim transactions the protocol issues for one position
MaxClaimTxs == 2
\* launchInteractive calls in a behaviour
MaxSessions == 1

\* ------------------------------------------------------- optional values
\* An optional field of TokenLaunchParams: <<>> is undefined, <<v>> is v.
None == <<>>
Some(v) == <<v>>

\* ----------------------------------------------------- JavaScript numbers
\* The numbers launchInteractive computes (part_000:77-78) are JavaScript
\* numbers, IEEE 754 binary64 values: NaN, an infinity, or
\* sign * mant * 2^exp, where mant is a natural number written in binary,
\* most significant bit first, without leading or trailing zero bits (empty
\* for zero).
Last(seq) == seq[Len(seq)]

\* `then`, with `first` worked out before it: the order of evaluation only
After(first, then) == IF first = first THEN then ELSE then

\* Naturals of any size as bit sequences, most significant bit first.  The
\* operations halve their argument rather than walk along it, which keeps
\* the depth of evaluation small for long sequences.
Zeros(n) == [i \in 1..n |-> 0]
Ones(bits) == {i \in 1..Len(bits) : bits[i] = 1}
Lowest(S) == CHOOSE i \in S : \A j \in S : i <= j
Highest(S) == CHOOSE i \in S : \A j \in S : i >= j
Trim(bits) == IF Ones(bits) = {} THEN <<>> ELSE SubSeq(bits, Lowest(Ones(bits)), Len(bits))
Pad(bits, n) == Zeros(n - Len(bits)) \o bits
Reverse(seq) == [i \in 1..Len(seq) |-> seq[Len(seq) + 1 - i]]
UpperHalf(seq) == SubSeq(seq, 1, Len(seq) \div 2)
LowerHalf(seq) == SubSeq(seq, Len(seq) \div 2 + 1, Len(seq))
RECURSIVE BitsOfNat(_)
BitsOfNat(n) == IF n = 0 THEN <<>> ELSE Append(BitsOfNat(n \div 2), n % 2)

\* One place of an operation done place by place, with the carry c that
\* comes into it: the bit that is left and the carry that goes out.
\*   "times":  x * k + c            for a bit x
\*   "over":   (2 * c + x) / k      for a bit x, c the remainder so far
\*   "plus":   x + c                for the sum x of two bits
\*   "minus":  x - c                for the difference x of two bits
Place(how, k, x, c) ==
    CASE how = "times" -> [out |-> <<(x * k + c) % 2>>, carry |-> (x * k + c) \div 2]
      [] how = "over"  -> [out |-> <<(2 * c + x) \div k>>, carry |-> (2 * c + x) % k]
      [] how = "plus"  -> [out |-> <<(x + c) % 2>>, carry |-> (x + c) \div 2]
      [] how = "minus" -> [out |-> <<(x - c + 2) % 2>>, carry |-> IF x - c < 0 THEN 1 ELSE 0]

\* The operation along a sequence of places, from its last place to its first.
RECURSIVE Places(_, _, _, _)
PlacesJoin(upper, lower) == [out |-> upper.out \o lower.out, carry |-> upper.carry]
PlacesUpper(how, k, upper, lower) ==
    After(lower, PlacesJoin(Places(how, k, upper, lower.carry), lower))
Places(how, k, seq, c) ==
    IF seq = <<>> THEN [out |-> <<>>, carry |-> c]
    ELSE IF Len(seq) = 1 THEN Place(how, k, seq[1], c)
    ELSE PlacesUpper(how, k, UpperHalf(seq), Places(how, k, LowerHalf(seq), c))
WithCarry(r) == Trim(BitsOfNat(r.carry) \o r.out)
Quotient(r) == [q |-> Trim(Reverse(r.out)), r |-> r.carry]
PlaceSums(a, b) == [i \in 1..Len(a) |-> a[i] + b[i]]
PlaceDifferences(a, b) == [i \in 1..Len(a) |-> a[i] - b[i]]
Longer(a, b) == IF Len(a) > Len(b) THEN Len(a) ELSE Len(b)

\* bits * k + c for small naturals k and c
MulAdd(bits, k, c) == WithCarry(Places("times", k, bits, c))
\* bits divided by a small natural d: the quotient q and the remainder r
DivSmall(bits, d) == Quotient(Places("over", d, Reverse(bits), 0))
\* a + b
AddBits(a, b) == WithCarry(Places("plus", 0, PlaceSums(Pad(a, Longer(a, b)), Pad(b, Longer(a, b))), 0))
\* a - b for a >= b
SubBits(a, b) == Trim(Places("minus", 0, PlaceDifferences(Pad(a, Longer(a, b)), Pad(b, Longer(a, b))), 0).out)
\* a < b for a and b without leading zeros
LessBits(a, b) ==
    IF Len(a) # Len(b) THEN Len(a) < Len(b)
    ELSE LET differ == {i \in 1..Len(a) : a[i] # b[i]} IN
         differ # {} /\ a[Lowest(differ)] < b[Lowest(differ)]

\* The values of a JavaScript number.
NaN == [kind |-> "nan", sign |-> 1, mant |-> <<>>, exp |-> 0]
Infinity(sign) == [kind |-> "inf", sign |-> sign, mant |-> <<>>, exp |-> 0]
\* the number without the trailing zero bits of its mantissa
Normal(x) ==
    IF Ones(x.mant) = {} THEN [x EXCEPT !.mant = <<>>, !.exp = 0]
    ELSE [x EXCEPT !.mant = SubSeq(x.mant, 1, Highest(Ones(x.mant))),
                   !.exp = x.exp + Len(x.mant) - Highest(Ones(x.mant))]
Number(sign, mant, exp) ==
    Normal([kind |-> "num", sign |-> sign, mant |-> Trim(mant), exp |-> exp])
Zero(sign) == Number(sign, <<>>, 0)

\* The binary64 value nearest to sign * bits * 2^exp, or to a little more
\* than that when `sticky`: 53 significant bits, the last of them not below
\* 2^-1074, ties to even, and an infinity from 2^1024 on.
RoundUp(kept, rest, sticky) ==
    /\ rest # <<>> /\ Head(rest) = 1
    /\ \/ sticky
       \/ \E i \in 2..Len(rest) : rest[i] = 1
       \/ kept # <<>> /\ Last(kept) = 1
RoundKept(sign, kept, up, exp) ==
    IF Len(kept) + exp > 1024 \/ (up /\ Ones(kept) = 1..Len(kept) /\ Len(kept) + exp = 1024)
    THEN Infinity(sign)
    ELSE Number(sign, IF up THEN AddBits(kept, <<1>>) ELSE kept, exp)
RoundDrop(sign, bits, exp, sticky, drop) ==
    IF drop <= 0 THEN RoundKept(sign, bits, FALSE, exp)
    ELSE IF drop > Len(bits) THEN Zero(sign)
    ELSE RoundKept(sign, SubSeq(bits, 1, Len(bits) - drop),
                   RoundUp(SubSeq(bits, 1, Len(bits) - drop),
                           SubSeq(bits, Len(bits) - drop + 1, Len(bits)), sticky),
                   exp + drop)
RoundBits(sign, bits, exp, sticky) ==
    RoundDrop(sign, bits, exp, sticky,
              IF Len(bits) - 53 > -1074 - exp THEN Len(bits) - 53 ELSE -1074 - exp)
Round(sign, bits, exp, sticky) == After(bits, RoundBits(sign, Trim(bits), exp, sticky))
NumberOf(k) == Number(IF k < 0 THEN -1 ELSE 1, BitsOfNat(IF k < 0 THEN -k ELSE k), 0)

\* x - y, rounded to binary64.  A difference of zero is +0, but for
\* (-0) - (+0), which is -0.
MinusAligned(x, y, a, b, e) ==
    IF a = <<>> /\ b = <<>> THEN Zero(IF x.sign = -1 /\ y.sign = 1 THEN -1 ELSE 1)
    ELSE IF x.sign # y.sign THEN Round(x.sign, AddBits(a, b), e, FALSE)
    ELSE IF Trim(a) = Trim(b) THEN Zero(1)
    ELSE IF LessBits(Trim(a), Trim(b)) THEN Round(-x.sign, SubBits(b, a), e, FALSE)
    ELSE Round(x.sign, SubBits(a, b), e, FALSE)
Lower(m, n) == IF m < n THEN m ELSE n
Minus(x, y) ==
    IF x.kind = "nan" \/ y.kind = "nan" THEN NaN
    ELSE IF x.kind = "inf" THEN (IF y.kind = "inf" /\ y.sign = x.sign THEN NaN ELSE x)
    ELSE IF y.kind = "inf" THEN Infinity(-y.sign)
    ELSE MinusAligned(x, y, x.mant \o Zeros(x.exp - Lower(x.exp, y.exp)),
                      y.mant \o Zeros(y.exp - Lower(x.exp, y.exp)), Lower(x.exp, y.exp))
\* x + y as a real number, nothing rounded: the mantissa is as long as the
\* sum takes.  With a NaN, or with two infinities of opposite signs, NaN.
SumAligned(x, y, a, b, e) ==
    IF x.sign = y.sign THEN Number(x.sign, AddBits(a, b), e)
    ELSE IF Trim(a) = Trim(b) THEN Zero(1)
    ELSE IF LessBits(Trim(a), Trim(b)) THEN Number(y.sign, SubBits(b, a), e)
    ELSE Number(x.sign, SubBits(a, b), e)
Sum(x, y) ==
    IF x.kind = "nan" \/ y.kind = "nan" THEN NaN
    ELSE IF x.kind = "inf" THEN (IF y.kind = "inf" /\ y.sign # x.sign THEN NaN ELSE x)
    ELSE IF y.kind = "inf" THEN y
    ELSE SumAligned(x, y, x.mant \o Zeros(x.exp - Lower(x.exp, y.exp)),
                    y.mant \o Zeros(y.exp - Lower(x.exp, y.exp)), Lower(x.exp, y.exp))
\* x < y
Less(x, y) == Minus(x, y).kind # "nan" /\ Minus(x, y).sign = -1 /\ Minus(x, y) # Zero(-1)

\* ------------------------------------------------------------- constants
DefaultCreatorFeeBps == 1000
DefaultFeeShareBps == 9000
TotalBps == 10000

\* JavaScript truthiness of a value that is a number or a string: 0, -0, NaN
\* and "" are falsy.  A whole number may be an integer here.  The test is made
\* on the printed value, so that it can be asked of a number and of a string
\* alike.
Falsy == {ToString(0), ToString(""), ToString(NaN), ToString(Zero(1)), ToString(Zero(-1))}
Truthy(v) == ToString(v) \notin Falsy

\* truthiness of an optional number / string (undefined is falsy)
TruthyNum(x) == x # None /\ Truthy(x[1])
TruthyStr(x) == x # None /\ Truthy(x[1])

\* `x || d` on an optional number (bags.ts:75-76)
OrDefault(x, d) == IF TruthyNum(x) THEN x[1] ELSE d

\* --------------------------------------------------------- environment
\* Handles the protocol has a registered wallet for, and that wallet.
Registered == {"alice"}
WalletOf(handle) == IF handle \in Registered THEN Some("wallet_" \o handle) ELSE None
CallerWallet == "wallet_caller"

\* Configuration keys the protocol hands out.
NoKey == [type |-> "none", mint |-> 0]
WalletConfigKey == [type |-> "wallet", mint |-> 0]
\* Mutant of FeeShareConfigKey: fee sharing reuses the wallet's key.
FeeShareConfigKey_Wallet(mint) == [type |-> "wallet", mint |-> 0]

FeeShareConfigKey(mint) == [type |-> "feeShare", mint |-> mint]

\* Transactions: what they are for, whether signed, what they reference.
\* A claim transaction also carries the place it was issued at: <<position, index>>.
NoTx == [kind |-> "none", signed |-> FALSE, mint |-> 0, configKey |-> NoKey, ref |-> <<0, 0>>]
Tx(kind, mint, key) ==
    [kind |-> kind, signed |-> FALSE, mint |-> mint, configKey |-> key, ref |-> <<0, 0>>]
ClaimTx(mint, i, j) ==
    [kind |-> "claim", signed |-> FALSE, mint |-> mint, configKey |-> NoKey, ref |-> <<i, j>>]
\* Mutant of Sign: the transaction is left as the SDK returned it.
Sign_Skipped(tx) == tx

\* tx.sign([this.keypair])
Sign(tx) == [tx EXCEPT !.signed = TRUE]

\* One entry of the log of calls made to the SDK, the RPC connection and fetch:
\* the call, how it ended ("ok", "threw", or what it reported: "null" for no
\* wallet, "err" for a confirmation error, "httpError" for a non-success
\* response), and the values it was given or gave back.
Call(name, result, tx, marker, sig, users) ==
    [op |-> name, result |-> result, tx |-> tx, marker |-> marker, sig |-> sig,
     users |-> users]

VARIABLES
    pc,              \* position of the running operation
    op,              \* the running top-level operation
    launchNo,        \* launchToken calls started so far
    params,          \* TokenLaunchParams of the running launch
    configResponse,  \* launchToken's configResponse (its configKey)
    tokenInfo,       \* launchToken's tokenInfo: None or <<mint>>
    finalConfigKey,  \* launchToken's finalConfigKey
    feeShareWallet,  \* launchToken's feeShareWallet
    fsWallet,        \* setupFeeSharing's feeShareWallet
    imageBlob,       \* createTokenInfo's imageBlob: where it came from
    tokenMint,       \* claimFees' tokenMint argument
    positions,       \* the positions fetched by claimFees / claimAllFees
    targetPositions, \* claimFees' targetPositions
    posIdx,          \* index of `position` in targetPositions
    claimTxs,        \* number of transactions in claimTxs
    txIdx,           \* index of `tx` in claimTxs
    signatures,      \* claimFees' signatures
    options,         \* the options of the running `claim` command
    answers,         \* what the user typed at launchInteractive's prompts
    prompt,          \* the question launchInteractive waits at, or how it ended
    sessionNo,       \* launchInteractive calls started so far
    stdin,           \* the lines the input of the session is drawn from
    parked,          \* the other launches in flight, each at its awaited call
    transaction,     \* sendTransaction's argument
    txStage,         \* position inside sendTransaction
    blockhash,       \* sendTransaction's blockhash
    signature,       \* sendTransaction's signature
    confirmation,    \* sendTransaction's confirmation.value.err
    outcome,         \* what the finished operation gave its caller
    trace,           \* sequencer states the running launch has entered
    calls,           \* calls the running operation has made, in order
    configOnChain,   \* the wallet's launch configuration exists
    slot,            \* the network's commitment marker
    sent,            \* transactions the network has accepted so far
    published,       \* token identities the protocol has published
    submitted,       \* transactions the network accepted, counted by kind
    landed,          \* transactions confirmed without error
    resolved,        \* configuration keys getOrCreateConfig has returned
    cli,             \* the `launch` command: its options and how far it got
    records          \* the files written under launches/

locals == <<params, configResponse, tokenInfo, finalConfigKey, feeShareWallet,
            fsWallet, imageBlob>>
txVars == <<transaction, txStage, blockhash, signature, confirmation>>
chain == <<configOnChain, slot, sent, published, submitted, landed>>
envVars == <<chain, resolved>>
claimLocals == <<tokenMint, positions, targetPositions, posIdx, claimTxs, txIdx, signatures,
                 options>>
cliVars == <<cli, records>>
entryVars == <<launchNo, answers, prompt, sessionNo, stdin, parked, cliVars>>
vars == <<pc, op, entryVars, locals, claimLocals, txVars, outcome, trace, calls, envVars>>

\* ------------------------------------------------------------------ inputs
Handles == {None, Some(""), Some("alice"), Some("bob")}
BpsInputs ==
    {None, Some(0), Some(2500), Some(7500), Some(TotalBps), Some(-2500), Some(12500)}
ImageUrls == {None, Some(""), Some("url")}
ImageFiles == {None, Some("buffer")}

LaunchParams(h, c, s, u, f) ==
    [feeShareTwitter |-> h, creatorFeeBps |-> c, feeShareBps |-> s,
     imageUrl |-> u, imageFile |-> f]

\* The bps pairs explored: one or both values absent, pairs that sum to 10000
\* (a negative value among them) and pairs of equal values, which do not.
BpsPairs ==
    {pair \in BpsInputs \X BpsInputs :
        \/ pair[1] = None
        \/ pair[2] = None
        \/ pair[1][1] + pair[2][1] = TotalBps
        \/ pair[1] = pair[2]}

\* The launches explored: every handle, every bps pair with a registered
\* partner, every image source.
LaunchInputs ==
    {LaunchParams(h, None, None, None, None) : h \in Handles}
    \cup {LaunchParams(Some("alice"), pair[1], pair[2], None, None) : pair \in BpsPairs}
    \cup {LaunchParams(None, None, None, u, f) : u \in ImageUrls, f \in ImageFiles}

NoParams == LaunchParams(None, None, None, None, None)

\* The questions of launchInteractive (part_000:43-99), named after the
\* constants their answers go to, and those whose answer decides the launch
\* parameters.
Questions ==
    {"name", "symbol", "description", "twitter", "telegram", "website", "imageChoice",
     "imageUrl", "imagePath", "initialBuyStr", "useFeeShare", "feeShareTwitter",
     "creatorPercent", "confirm"}
Deciding ==
    {"imageChoice", "imageUrl", "useFeeShare", "feeShareTwitter", "creatorPercent", "confirm"}

\* The lines a user types at the deciding questions (part_000:52-101), for
\* those of them that are asked.  The percentage and the two y/n answers are
\* kept as their characters.
Answers(imageChoice, imageUrl, useFeeShare, handle, creatorPercent, confirm) ==
    [imageChoice |-> imageChoice, imageUrl |-> imageUrl,
     useFeeShare |-> useFeeShare, feeShareTwitter |-> handle,
     creatorPercent |-> creatorPercent, confirm |-> confirm]
\* The answers of a session: the questions answered so far and the lines
\* typed at the deciding ones.
NoAnswers ==
    [answered |-> {}, imageChoice |-> "", imageUrl |-> "", useFeeShare |-> <<>>,
     feeShareTwitter |-> "", creatorPercent |-> <<>>, confirm |-> <<>>]

\* Percentages typed: whole and fractional, with an exponent, blank, after a
\* tab and after a vertical tab, signed, out of range, with trailing text, and not a number.  12.5 and
\* .5 are exact in binary; 0.07 and 1.1 are not, and neither are their
\* products with 100.
PercentLines ==
    { <<>>, <<"0">>, <<"0", ".", "0">>, <<"1", "e", "1">>, <<"2", "5">>, <<"5", "e", "1">>,
      <<"1", "0", "0">>, <<"1", "2", ".", "5">>, <<"0", ".", "0", "7">>, <<".", "5">>,
      <<"5", ".">>, <<"\t", "7", "5">>, <<"", "5">>, <<"5", "0", "%">>, <<"+", "1", ".", "1">>,
      <<"-", "5">>, <<"I", "n", "f", "i", "n", "i", "t", "y">>, <<"a", "b", "c">>, <<".">> }

\* The prompt sessions explored: every percentage with a registered partner,
\* the other handles, every image choice, every answer to the last prompt.
\* The lines of a session are typed one at a time, each at its question.
InteractiveAnswers ==
    {Answers("3", "", <<"y">>, "alice", line, <<"y">>) : line \in PercentLines}
    \cup {Answers("3", "", <<"y">>, h, <<"2", "5">>, <<"y">>) : h \in {"bob", ""}}
    \cup {Answers(c, u, <<"n">>, "", <<>>, <<"y">>) : c \in {"1", "2", "3", ""}, u \in {"url", ""}}
    \cup {Answers("3", "", f, "alice", <<"2", "5">>, k) :
              f \in {<<"Y">>, <<"N">>, <<>>},
              k \in {<<"y">>, <<"Y">>, <<"n">>, <<>>, <<"y", "e", "s">>, <<"Y", "E", "S">>}}
\* The prompt sessions explored beside the launches of other callers: no
\* image and no partner with every answer to the last prompt, and with a
\* partner a confirmed and a cancelled one.
FewAnswers ==
    {Answers("3", "", <<"n">>, "", <<>>, k) :
         k \in {<<"y">>, <<"Y">>, <<"n">>, <<>>, <<"y", "e", "s">>, <<"Y", "E", "S">>}}
    \cup {Answers("3", "", <<"Y">>, "alice", <<"2", "5">>, k) : k \in {<<"y">>, <<"n">>}}
\* The prompt sessions of the command: a plain launch, a cancelled one, one
\* with a partner and one with an image file.
CommandAnswers ==
    { Answers("3", "", <<"n">>, "", <<>>, <<"y">>), Answers("3", "", <<"n">>, "", <<>>, <<"n">>),
      Answers("3", "", <<"y">>, "alice", <<"2", "5">>, <<"y">>),
      Answers("2", "", <<"n">>, "", <<>>, <<"y">>) }

NoOutcome ==
    [kind |-> "none", error |-> "", tokenMint |-> 0, signature |-> 0,
     configKey |-> NoKey, feeShareWallet |-> None, signatures |-> <<>>]
NoBlob == [source |-> "none", ok |-> FALSE]
TxKinds == {"config", "feeShare", "launch", "claim"}

\* ------------------------------------------------------------ launchToken
\* Mutant of HasFeeShare: the handle is only tested for being defined.
HasFeeShare_Defined(p) == p.feeShareTwitter # None

\* `if (params.feeShareTwitter)` (bags.ts:72)
HasFeeShare(p) == TruthyStr(p.feeShareTwitter)

\* The arguments launchToken passes to setupFeeSharing (bags.ts:75-76).
CreatorBpsArg(p) == OrDefault(p.creatorFeeBps, DefaultCreatorFeeBps)
ShareBpsArg(p) == OrDefault(p.feeShareBps, DefaultFeeShareBps)

\* Mutant of AfterStep: metadata is published before the configuration is
\* resolved.
AfterStep_MetadataFirst(step, p) ==
    CASE step = "launchToken" -> "createTokenInfo"
      [] step = "createTokenInfo" -> "getOrCreateConfig"
      [] step = "getOrCreateConfig" ->
            IF HasFeeShare(p) THEN "setupFeeSharing" ELSE "createLaunchTransaction"
      [] step = "setupFeeSharing" -> "createLaunchTransaction"
      [] OTHER -> "done"

\* The order of launchToken's steps (bags.ts:63-94): the step that follows
\* the completed step `step`.
AfterStep(step, p) ==
    CASE step = "launchToken" -> "getOrCreateConfig"
      [] step = "getOrCreateConfig" -> "createTokenInfo"
      [] step = "createTokenInfo" ->
            IF HasFeeShare(p) THEN "setupFeeSharing" ELSE "createLaunchTransaction"
      [] step = "setupFeeSharing" -> "createLaunchTransaction"
      [] OTHER -> "done"

\* An error leaves the running operation: launchToken's catch (bags.ts:110-113)
\* logs and rethrows, claimFees has no handler.  Nothing else runs.
Throw(err) ==
    /\ pc' = "done"
    /\ txStage' = "none"
    /\ outcome' = [NoOutcome EXCEPT !.kind = "error", !.error = err]
    /\ trace' = IF op = "launchToken" THEN Append(trace, "FAILED") ELSE trace

\* this.sendTransaction(tx) is entered with a transaction already signed by
\* the caller (bags.ts:93-94, 128-130, 213-214, 310-311).
EnterSendTransaction(tx) ==
    /\ pc' = "sendTransaction"
    /\ transaction' = tx
    /\ txStage' = "getLatestBlockhash"
    /\ blockhash' = 0
    /\ signature' = 0
    /\ confirmation' = None

\* The locals of a launch that has called nothing yet.
FreshLocals(p) ==
    /\ params' = p
    /\ configResponse' = NoKey
    /\ tokenInfo' = None
    /\ finalConfigKey' = NoKey
    /\ feeShareWallet' = None
    /\ fsWallet' = None
    /\ imageBlob' = NoBlob
    /\ transaction' = NoTx
    /\ txStage' = "none"
    /\ blockhash' = 0
    /\ signature' = 0
    /\ confirmation' = None
    /\ calls' = <<>>
    /\ UNCHANGED <<claimLocals, envVars>>

\* launchToken(p) is entered (bags.ts:58-63): its locals are fresh and
\* nothing has been called yet.
EnterLaunch(p) ==
    /\ launchNo < MaxLaunches
    /\ launchNo' = launchNo + 1
    /\ FreshLocals(p)
    /\ op' = "launchToken"
    /\ pc' = AfterStep("launchToken", p)
    /\ outcome' = NoOutcome
    /\ trace' = <<"START">>

\* launchToken(p) is called by a caller that starts when nothing is in
\* flight.
StartLaunch(p) ==
    /\ pc \in {"idle", "done"}
    /\ parked = {}
    /\ EnterLaunch(p)

\* The launch that pc, op, the locals, the outcome, the trace and the calls
\* describe: the one whose awaited call settles next.
Running ==
    [pc |-> pc, op |-> op, locals |-> locals, txVars |-> txVars, outcome |-> outcome,
     trace |-> trace, calls |-> calls]

\* launchToken(params) is called (bags.ts:58-63) with params among `inputs`.
LaunchTokenWith(inputs) ==
    /\ \E p \in inputs : StartLaunch(p)
    /\ answers' = IF prompt \in Questions THEN answers ELSE NoAnswers
    /\ prompt' = IF prompt \in Questions THEN prompt ELSE "none"
    /\ UNCHANGED <<sessionNo, stdin, parked, cliVars>>

\* What sdk.config.getOrCreateConfig answers for the caller's wallet: the
\* wallet's configuration key and, when no configuration exists yet, the
\* transaction that creates it.
SdkConfigResponse ==
    [configKey |-> WalletConfigKey,
     transaction |-> IF configOnChain THEN None
                     ELSE Some(Tx("config", 0, WalletConfigKey))]

\* Mutant of ConfigTransaction: a creation transaction is sent on every call.
ConfigTransaction_Always(response) == Some(Tx("config", 0, response.configKey))

\* The creation transaction getOrCreateConfig signs and sends, if any:
\* `if (configResponse.transaction)` (bags.ts:126-130).
ConfigTransaction(response) == response.transaction

\* getOrCreateConfig up to its sendTransaction call (bags.ts:119-134).
GetOrCreateConfig ==
    /\ op = "launchToken" /\ pc = "getOrCreateConfig"
    /\ \/ /\ calls' = Append(calls,
                 Call("sdk.config.getOrCreateConfig", "threw", NoTx, 0, 0, <<>>))
          /\ Throw("ProtocolError")
          /\ UNCHANGED <<locals, transaction, blockhash, signature, confirmation, resolved>>
       \/ /\ calls' = Append(calls,
                 Call("sdk.config.getOrCreateConfig", "ok", NoTx, 0, 0, <<>>))
          /\ configResponse' = SdkConfigResponse.configKey
          /\ IF ConfigTransaction(SdkConfigResponse) # None
                THEN /\ EnterSendTransaction(Sign(ConfigTransaction(SdkConfigResponse)[1]))
                     /\ UNCHANGED trace
                     /\ UNCHANGED resolved
                ELSE /\ pc' = AfterStep("getOrCreateConfig", params)
                     /\ trace' = Append(trace, "CONFIG_RESOLVED")
                     /\ resolved' = resolved \cup {configResponse'}
                     /\ UNCHANGED txVars
          /\ UNCHANGED <<params, tokenInfo, finalConfigKey, feeShareWallet, fsWallet,
                         imageBlob, outcome>>
    /\ UNCHANGED <<op, entryVars, claimLocals, chain>>

\* getOrCreateConfig after its creation transaction (bags.ts:130-136).
ConfigCreated ==
    /\ op = "launchToken" /\ pc = "sendTransaction" /\ txStage = "returned"
    /\ transaction.kind = "config"
    /\ pc' = AfterStep("getOrCreateConfig", params)
    /\ txStage' = "none"
    /\ trace' = Append(trace, "CONFIG_RESOLVED")
    /\ resolved' = resolved \cup {configResponse}
    /\ UNCHANGED <<op, entryVars, claimLocals, locals, transaction, blockhash, signature,
                   confirmation, outcome, calls, chain>>

\* -------------------------------------------------------- sendTransaction
\* What confirmTransaction can report in confirmation.value.err.
ConfirmationErrs == {None, Some("InstructionError")}

\* Mutant of Rejected: the confirmation's error value is ignored.
Rejected_Ignored(err) == FALSE

\* `if (confirmation.value.err)` (bags.ts:244)
Rejected(err) == err # None /\ Truthy(err[1])

\* Mutant of ConfirmBlockhash: the poll uses the marker current at poll time.
ConfirmBlockhash_Refetched == slot

\* The marker and signature confirmTransaction is given (bags.ts:238-242).
ConfirmBlockhash == blockhash
ConfirmSignature == signature

ConfirmCall(result) ==
    Call("connection.confirmTransaction", result, NoTx, ConfirmBlockhash,
         ConfirmSignature, <<>>)

\* const blockhash = await this.connection.getLatestBlockhash() (bags.ts:231)
GetLatestBlockhash ==
    /\ pc = "sendTransaction" /\ txStage = "getLatestBlockhash"
    /\ \/ /\ calls' = Append(calls,
                 Call("connection.getLatestBlockhash", "threw", NoTx, 0, 0, <<>>))
          /\ Throw("NetworkError")
          /\ UNCHANGED <<blockhash, slot>>
       \/ /\ calls' = Append(calls,
                 Call("connection.getLatestBlockhash", "ok", NoTx, slot, 0, <<>>))
          /\ blockhash' = slot
          /\ slot' = slot + 1
          /\ txStage' = "sendTransaction"
          /\ UNCHANGED <<pc, outcome, trace>>
    /\ UNCHANGED <<op, entryVars, claimLocals, locals, transaction, signature, confirmation,
                   configOnChain, sent, published, submitted, landed, resolved>>

\* const signature = await this.connection.sendTransaction(...) (bags.ts:233-236)
SendTransaction ==
    /\ pc = "sendTransaction" /\ txStage = "sendTransaction"
    /\ \/ /\ calls' = Append(calls,
                 Call("connection.sendTransaction", "threw", transaction, 0, 0, <<>>))
          /\ Throw("NetworkError")
          /\ UNCHANGED <<signature, sent, submitted>>
       \/ /\ calls' = Append(calls,
                 Call("connection.sendTransaction", "ok", transaction, 0, sent + 1, <<>>))
          /\ signature' = sent + 1
          /\ sent' = sent + 1
          /\ submitted' = [submitted EXCEPT ![transaction.kind] = @ + 1]
          /\ txStage' = "confirmTransaction"
          /\ UNCHANGED <<pc, outcome, trace>>
    /\ UNCHANGED <<op, entryVars, claimLocals, locals, transaction, blockhash, confirmation,
                   configOnChain, slot, published, landed, resolved>>

\* confirmTransaction, the check of its error value and the return
\* (bags.ts:238-248).
ConfirmTransaction ==
    /\ pc = "sendTransaction" /\ txStage = "confirmTransaction"
    /\ \/ /\ calls' = Append(calls, ConfirmCall("threw"))
          /\ Throw("NetworkError")
          /\ UNCHANGED <<confirmation, configOnChain, landed>>
       \/ \E err \in ConfirmationErrs :
            /\ calls' = Append(calls, ConfirmCall(IF err = None THEN "ok" ELSE "err"))
            /\ confirmation' = IF err = None THEN Some("null") ELSE err
            /\ IF Rejected(err)
                  THEN /\ Throw("TransactionRejected")
                       /\ UNCHANGED <<configOnChain, landed>>
                  ELSE /\ txStage' = "returned"
                       /\ landed' = IF err = None
                                     THEN landed \cup {[tx |-> transaction, sig |-> signature]}
                                     ELSE landed
                       /\ configOnChain' =
                              (configOnChain \/ (err = None /\ transaction.kind = "config"))
                       /\ UNCHANGED <<pc, outcome, trace>>
    /\ UNCHANGED <<op, entryVars, claimLocals, locals, transaction, blockhash, signature,
                   slot, sent, published, submitted, resolved>>

\* -------------------------------------------------------- createTokenInfo
\* Mutant of ImageSource: the local buffer is preferred to the URL.
ImageSource_FileFirst(p) ==
    IF TruthyStr(p.imageFile) THEN "file"
    ELSE IF TruthyStr(p.imageUrl) THEN "url"
    ELSE "default"

\* Which image source createTokenInfo uses (bags.ts:147-159).
ImageSource(p) ==
    IF TruthyStr(p.imageUrl) THEN "url"
    ELSE IF TruthyStr(p.imageFile) THEN "file"
    ELSE "default"

\* Image resolution: fetch(params.imageUrl), the buffer, or fetch(defaultImage)
\* (bags.ts:142-159).  createTokenInfo waits for the response first
\* (bags.ts:149, 157); fetch rejects on a network error only, a response with
\* a non-success status resolves.
CreateTokenInfo ==
    /\ op = "launchToken" /\ pc = "createTokenInfo"
    /\ LET src == ImageSource(params) IN
         IF src = "file"
            THEN /\ imageBlob' = [source |-> src, ok |-> TRUE]
                 /\ pc' = "createTokenInfoAndMetadata"
                 /\ UNCHANGED <<calls, outcome, trace, txStage>>
            ELSE /\ \/ /\ calls' = Append(calls, Call("fetch." \o src, "threw", NoTx, 0, 0, <<>>))
                       /\ Throw("NetworkError")
                    \/ \E status \in BOOLEAN :
                         /\ calls' = Append(calls,
                                Call("fetch." \o src, IF status THEN "ok" ELSE "httpError",
                                     NoTx, 0, 0, <<>>))
                         /\ pc' = "responseBlob"
                         /\ UNCHANGED <<outcome, trace, txStage>>
                 /\ UNCHANGED imageBlob
    /\ UNCHANGED <<op, entryVars, claimLocals, params, configResponse, tokenInfo, finalConfigKey,
                   feeShareWallet, fsWallet, transaction, blockhash, signature,
                   confirmation, envVars>>

\* `await response.blob()` (bags.ts:150, 158), the second wait of
\* createTokenInfo: the body of the response that arrived, whatever its
\* status, becomes the image blob, or reading it fails.
ResponseBlob ==
    /\ op = "launchToken" /\ pc = "responseBlob"
    /\ \/ /\ Throw("NetworkError")
          /\ UNCHANGED imageBlob
       \/ /\ imageBlob' = [source |-> ImageSource(params), ok |-> Last(calls).result = "ok"]
          /\ pc' = "createTokenInfoAndMetadata"
          /\ UNCHANGED <<outcome, trace, txStage>>
    /\ UNCHANGED <<op, entryVars, claimLocals, params, configResponse, tokenInfo, finalConfigKey,
                   feeShareWallet, fsWallet, transaction, blockhash, signature,
                   confirmation, calls, envVars>>

\* Mutant of PublishedMint: a later publication answers the first identity.
PublishedMint_Reused(count) == 1

\* The token identity createTokenInfoAndMetadata answers: newly derived on
\* every call, whatever was published before.
PublishedMint(count) == count + 1

\* sdk.tokenLaunch.createTokenInfoAndMetadata and the return into launchToken
\* (bags.ts:161-172, 66-72).
CreateTokenInfoAndMetadata ==
    /\ op = "launchToken" /\ pc = "createTokenInfoAndMetadata"
    /\ \/ /\ calls' = Append(calls,
                 Call("sdk.tokenLaunch.createTokenInfoAndMetadata", "threw", NoTx, 0, 0, <<>>))
          /\ Throw("ProtocolError")
          /\ UNCHANGED <<tokenInfo, finalConfigKey, published>>
       \/ /\ calls' = Append(calls,
                 Call("sdk.tokenLaunch.createTokenInfoAndMetadata", "ok", NoTx, 0, 0, <<>>))
          /\ published' = published + 1
          /\ tokenInfo' = Some(PublishedMint(published))
          /\ finalConfigKey' = configResponse
          /\ pc' = AfterStep("createTokenInfo", params)
          /\ trace' = Append(trace, "METADATA_PUBLISHED")
          /\ UNCHANGED <<outcome, txStage>>
    /\ UNCHANGED <<op, entryVars, claimLocals, params, configResponse, feeShareWallet, fsWallet,
                   imageBlob, transaction, blockhash, signature, confirmation,
                   configOnChain, slot, sent, submitted, landed, resolved>>

\* -------------------------------------------------------- setupFeeSharing
\* The entry list given to createFeeShareConfig (bags.ts:197-206), called with
\* launchToken's arguments (bags.ts:73-78): <<wallet, bps>> for the caller and
\* for the looked-up partner wallet.
FeeShareUsers(p, wallet) ==
    << <<CallerWallet, CreatorBpsArg(p)>>, <<wallet, ShareBpsArg(p)>> >>

WalletCall(result) ==
    Call("sdk.state.getLaunchWalletForTwitterUsername", result, NoTx, 0, 0, <<>>)

\* Mutant of WalletMissing: the lookup result is not checked.
WalletMissing_Unchecked(wallet) == FALSE

\* `if (!feeShareWallet)` (bags.ts:191)
WalletMissing(wallet) == wallet = None

\* Wallet lookup for the handle (bags.ts:184-193).
GetLaunchWallet ==
    /\ op = "launchToken" /\ pc = "setupFeeSharing"
    /\ \/ /\ calls' = Append(calls, WalletCall("threw"))
          /\ Throw("ProtocolError")
          /\ UNCHANGED fsWallet
       \/ LET wallet == WalletOf(params.feeShareTwitter[1]) IN
            /\ calls' = Append(calls, WalletCall(IF wallet = None THEN "null" ELSE "ok"))
            /\ IF WalletMissing(wallet)
                  THEN /\ Throw("PartnerWalletNotFound")
                       /\ UNCHANGED fsWallet
                  ELSE /\ fsWallet' = wallet
                       /\ pc' = "createFeeShareConfig"
                       /\ UNCHANGED <<outcome, trace, txStage>>
    /\ UNCHANGED <<op, entryVars, claimLocals, params, configResponse, tokenInfo, finalConfigKey,
                   feeShareWallet, imageBlob, transaction, blockhash, signature,
                   confirmation, envVars>>

\* setupFeeSharing returns into launchToken (bags.ts:217-225, 79-80).
FeeShareReturn ==
    /\ finalConfigKey' = FeeShareConfigKey(tokenInfo[1])
    /\ feeShareWallet' = fsWallet
    /\ pc' = AfterStep("setupFeeSharing", params)
    /\ trace' = Append(trace, "FEE_SHARE_CONFIGURED")

FeeShareCall(result, tx) ==
    Call("sdk.config.createFeeShareConfig", result, tx, 0, 0,
         FeeShareUsers(params, fsWallet))

\* What sdk.config.createFeeShareConfig can answer for a token: the fee-share
\* configuration key, with or without a transaction that creates it.
FeeShareResponses(mint) ==
    {[configKey |-> FeeShareConfigKey(mint), transaction |-> t] :
        t \in {None, Some(Tx("feeShare", mint, FeeShareConfigKey(mint)))}}

\* Mutant of FeeShareTransaction: a returned transaction is dropped.
FeeShareTransaction_Dropped(response) == None

\* The transaction setupFeeSharing signs and sends, if any:
\* `if (feeShareConfig.transaction)` (bags.ts:212-215).
FeeShareTransaction(response) == response.transaction

\* sdk.config.createFeeShareConfig and, when it returns a transaction, the
\* call of sendTransaction (bags.ts:195-215).
CreateFeeShareConfig ==
    /\ op = "launchToken" /\ pc = "createFeeShareConfig"
    /\ \/ /\ calls' = Append(calls, FeeShareCall("threw", NoTx))
          /\ Throw("ProtocolError")
          /\ UNCHANGED <<finalConfigKey, feeShareWallet, transaction, blockhash,
                         signature, confirmation>>
       \/ \E response \in FeeShareResponses(tokenInfo[1]) :
            /\ calls' = Append(calls,
                   FeeShareCall("ok", IF response.transaction = None THEN NoTx
                                      ELSE response.transaction[1]))
            /\ IF FeeShareTransaction(response) # None
                  THEN /\ EnterSendTransaction(Sign(FeeShareTransaction(response)[1]))
                       /\ UNCHANGED <<finalConfigKey, feeShareWallet, outcome, trace>>
                  ELSE /\ FeeShareReturn
                       /\ UNCHANGED <<txVars, outcome>>
    /\ UNCHANGED <<op, entryVars, claimLocals, params, configResponse, tokenInfo, fsWallet,
                   imageBlob, envVars>>

\* setupFeeSharing after its transaction (bags.ts:214-225, 79-80).
FeeShareConfigured ==
    /\ op = "launchToken" /\ pc = "sendTransaction" /\ txStage = "returned"
    /\ transaction.kind = "feeShare"
    /\ FeeShareReturn
    /\ txStage' = "none"
    /\ UNCHANGED <<op, entryVars, claimLocals, params, configResponse, tokenInfo, fsWallet,
                   imageBlob, transaction, blockhash, signature, confirmation,
                   outcome, calls, envVars>>

\* ------------------------------------------------- the launch transaction
\* sdk.tokenLaunch.createLaunchTransaction, sign, sendTransaction (bags.ts:83-94).
CreateLaunchTransaction ==
    /\ op = "launchToken" /\ pc = "createLaunchTransaction"
    /\ LET tx == Tx("launch", tokenInfo[1], finalConfigKey) IN
         /\ \/ /\ calls' = Append(calls,
                      Call("sdk.tokenLaunch.createLaunchTransaction", "threw", tx, 0, 0, <<>>))
               /\ Throw("ProtocolError")
               /\ UNCHANGED <<transaction, blockhash, signature, confirmation>>
            \/ /\ calls' = Append(calls,
                      Call("sdk.tokenLaunch.createLaunchTransaction", "ok", tx, 0, 0, <<>>))
               /\ EnterSendTransaction(Sign(tx))
               /\ trace' = Append(trace, "LAUNCH_SUBMITTED")
               /\ UNCHANGED outcome
    /\ UNCHANGED <<op, entryVars, claimLocals, locals, envVars>>

\* The LaunchResult is built and returned (bags.ts:96-109).
LaunchResult ==
    /\ op = "launchToken" /\ pc = "sendTransaction" /\ txStage = "returned"
    /\ transaction.kind = "launch"
    /\ outcome' = [NoOutcome EXCEPT !.kind = "result",
                                    !.tokenMint = tokenInfo[1],
                                    !.signature = signature,
                                    !.configKey = finalConfigKey,
                                    !.feeShareWallet = feeShareWallet]
    /\ pc' = "done"
    /\ txStage' = "none"
    /\ trace' = Append(trace, "CONFIRMED")
    /\ UNCHANGED <<op, entryVars, claimLocals, locals, transaction, blockhash, signature,
                   confirmation, calls, envVars>>

\* ------------------------------------------------------ launchInteractive
\* A typed line is a sequence of characters.
DigitChars == <<"0", "1", "2", "3", "4", "5", "6", "7", "8", "9">>
IsDigit(c) == \E d \in 1..10 : DigitChars[d] = c
DigitValue(c) == (CHOOSE d \in 1..10 : DigitChars[d] = c) - 1

\* StrWhiteSpaceChar, those that a string of this notation can hold: space,
\* tab, line feed, carriage return, form feed and the vertical tab (U+000B,
\* written as the character itself).  The others are not ASCII: U+00A0,
\* U+FEFF, U+2028, U+2029 and the space separators.
WhiteSpaceChars == {" ", "\t", "\n", "\r", "\f", ""}
\* the line from its first character that is not white space
SkipBlanks(line) ==
    SubSeq(line, Lowest({i \in 1..Len(line) : line[i] \notin WhiteSpaceChars}
                        \cup {Len(line) + 1}), Len(line))

\* number of leading digits of a line
LeadingDigits(line) ==
    Lowest({i \in 1..Len(line) : ~IsDigit(line[i])} \cup {Len(line) + 1}) - 1

\* bits * 10^n
RECURSIVE TimesPow10(_, _)
TimesPow10Then(first, n) == After(first, TimesPow10(first, n))
TimesPow10(bits, n) ==
    IF n = 0 THEN bits
    ELSE IF n = 1 THEN MulAdd(bits, 10, 0)
    ELSE TimesPow10Then(TimesPow10(bits, n \div 2), n - n \div 2)

\* bits divided by 5^n, rounded down, and whether anything was lost
RECURSIVE DivPow5(_, _)
DivPow5Once(d) == [q |-> d.q, lost |-> d.r # 0]
DivPow5Both(first, then) == [q |-> then.q, lost |-> first.lost \/ then.lost]
DivPow5Then(first, n) == After(first, DivPow5Both(first, DivPow5(first.q, n)))
DivPow5(bits, n) ==
    IF n = 0 THEN [q |-> bits, lost |-> FALSE]
    ELSE IF n = 1 THEN DivPow5Once(DivSmall(bits, 5))
    ELSE DivPow5Then(DivPow5(bits, n \div 2), n - n \div 2)

\* value of a run of digits, as bits
RECURSIVE DigitsValue(_)
DigitsValueBoth(upper, lower, n) == After(<<upper, lower>>, AddBits(TimesPow10(upper, n), lower))
DigitsValue(digits) ==
    IF digits = <<>> THEN <<>>
    ELSE IF Len(digits) = 1 THEN BitsOfNat(DigitValue(digits[1]))
    ELSE DigitsValueBoth(DigitsValue(UpperHalf(digits)), DigitsValue(LowerHalf(digits)),
                         Len(LowerHalf(digits)))

\* The value of the digits of an exponent, or `most` when the value is
\* larger: the smaller of the two, whatever the number of digits.
RECURSIVE ExponentValue(_, _)
ExponentValue(digits, most) ==
    IF digits = <<>> THEN 0
    ELSE LET v == ExponentValue(SubSeq(digits, 1, Len(digits) - 1), most)
             d == DigitValue(Last(digits))
         IN  IF v >= (most - d + 9) \div 10 THEN most ELSE 10 * v + d
\* An exponent from which on a line is zero or an infinity whatever the
\* exponent is: the mantissa has fewer than Len(line) digits before and fewer
\* than Len(line) digits after the point, so that with an exponent e of at
\* least Len(line) + 400 the value is 10^310 or more (or zero, for a mantissa
\* of zero), and with -e it is below 10^-324 (see DecimalOf).
Beyond(line) == Len(line) + 400

\* The binary64 value nearest to sign * n * 10^scale for n of `len` decimal
\* digits: n * 10^scale for a scale >= 0, and otherwise n * 2^s / 5^q with
\* q = -scale and s = 3q + 55, a quotient of 55 bits or more.  From 10^310
\* on it is an infinity, and below 10^-324 it is zero.
DecimalQuotient(sign, d, exp) == After(d, Round(sign, d.q, exp, d.lost))
DecimalOf(sign, n, len, scale) ==
    IF n = <<>> THEN Zero(sign)
    ELSE IF scale >= 310 THEN Infinity(sign)
    ELSE IF scale >= 0 THEN Round(sign, TimesPow10(n, scale), 0, FALSE)
    ELSE IF len + scale <= -324 THEN Zero(sign)
    ELSE DecimalQuotient(sign, DivPow5(n \o Zeros(3 * (-scale) + 55), -scale),
                         scale - (3 * (-scale) + 55))
Decimal(sign, digits, scale) == DecimalOf(sign, DigitsValue(digits), Len(digits), scale)

IsPrefix(s, t) == Len(s) <= Len(t) /\ \A k \in 1..Len(s) : s[k] = t[k]

\* parseFloat(line) (part_000:77): leading white space is skipped; an
\* optional sign; then "Infinity", or the longest decimal literal: digits,
\* optionally a point and digits, optionally an exponent (e or E, an optional
\* sign, digits); what follows is ignored; with no digit it is NaN.
ParseFloat(line) ==
    LET body == SkipBlanks(line)
        signed == body # <<>> /\ Head(body) \in {"-", "+"}
        sign == IF body # <<>> /\ Head(body) = "-" THEN -1 ELSE 1
        rest == IF signed THEN Tail(body) ELSE body
        n == LeadingDigits(rest)
        after == SubSeq(rest, n + 1, Len(rest))
        point == after # <<>> /\ Head(after) = "."
        m == IF point THEN LeadingDigits(Tail(after)) ELSE 0
        tail == SubSeq(after, (IF point THEN 2 ELSE 1) + m, Len(after))
        marked == tail # <<>> /\ Head(tail) \in {"e", "E"}
        esigned == marked /\ Len(tail) >= 2 /\ tail[2] \in {"-", "+"}
        edigits == IF marked THEN SubSeq(tail, IF esigned THEN 3 ELSE 2, Len(tail)) ELSE <<>>
        k == LeadingDigits(edigits)
        e == (IF esigned /\ tail[2] = "-" THEN -1 ELSE 1) *
                 ExponentValue(SubSeq(edigits, 1, k), Beyond(line))
    IN  IF IsPrefix(<<"I", "n", "f", "i", "n", "i", "t", "y">>, rest) THEN Infinity(sign)
        ELSE IF n + m = 0 THEN NaN
        ELSE Decimal(sign, SubSeq(rest, 1, n) \o SubSeq(rest, n + 2, n + 1 + m), e - m)

\* `x || d`: NaN and both zeros are falsy (part_000:77)
NumberOr(x, d) == IF x.kind = "nan" \/ (x.kind = "num" /\ x.mant = <<>>) THEN d ELSE x

\* `x * k` for a natural k > 0, rounded to binary64 (part_000:77)
Times(x, k) ==
    IF x.kind # "num" THEN x ELSE Round(x.sign, MulAdd(x.mant, k, 0), x.exp, FALSE)

\* `k - x` for a natural k, rounded to binary64 (part_000:78)
MinusFrom(k, x) == Minus(NumberOf(k), x)

\* creatorFeeBps = (parseFloat(creatorPercent) || 10) * 100 (part_000:77)
InteractiveCreatorFeeBps(creatorPercent) ==
    Times(NumberOr(ParseFloat(creatorPercent), NumberOf(10)), 100)
\* feeShareBps = 10000 - creatorFeeBps (part_000:78)
InteractiveFeeShareBps(creatorBps) == MinusFrom(TotalBps, creatorBps)

\* answer.toLowerCase() (part_000:74, 101) on a line of characters: the
\* letters A to Z become a to z.  No other character becomes "y".
LowerOf ==
    ("A" :> "a") @@ ("B" :> "b") @@ ("C" :> "c") @@ ("D" :> "d") @@ ("E" :> "e") @@
    ("F" :> "f") @@ ("G" :> "g") @@ ("H" :> "h") @@ ("I" :> "i") @@ ("J" :> "j") @@
    ("K" :> "k") @@ ("L" :> "l") @@ ("M" :> "m") @@ ("N" :> "n") @@ ("O" :> "o") @@
    ("P" :> "p") @@ ("Q" :> "q") @@ ("R" :> "r") @@ ("S" :> "s") @@ ("T" :> "t") @@
    ("U" :> "u") @@ ("V" :> "v") @@ ("W" :> "w") @@ ("X" :> "x") @@ ("Y" :> "y") @@
    ("Z" :> "z")
LowerChar(c) == IF c \in DOMAIN LowerOf THEN LowerOf[c] ELSE c
LowerCase(answer) == [i \in 1..Len(answer) |-> LowerChar(answer[i])]

\* `useFeeShare.toLowerCase() === 'y'` (part_000:74)
UsesFeeShare(a) == LowerCase(a.useFeeShare) = <<"y">>

\* Mutant of Cancelled: the answer to the last prompt is not looked at.
Cancelled_Never(a) == FALSE

\* `confirm.toLowerCase() !== 'y'` (part_000:101)
Cancelled(a) == LowerCase(a.confirm) # <<"y">>

\* The TokenLaunchParams launchInteractive builds (part_000:52-94).
InteractiveParams(a) ==
    LET creatorBps == InteractiveCreatorFeeBps(a.creatorPercent) IN
    LaunchParams(
        IF UsesFeeShare(a) THEN Some(a.feeShareTwitter) ELSE None,
        IF UsesFeeShare(a) THEN Some(creatorBps) ELSE None,
        IF UsesFeeShare(a) THEN Some(InteractiveFeeShareBps(creatorBps)) ELSE None,
        IF a.imageChoice = "1" THEN Some(a.imageUrl) ELSE None,
        IF a.imageChoice = "2" THEN Some("buffer") ELSE None)

\* The answers of a finished session or of a typed one, without the lines of
\* the questions that were not asked.
Final(a) ==
    Answers(a.imageChoice, IF a.imageChoice = "1" THEN a.imageUrl ELSE "", a.useFeeShare,
            IF UsesFeeShare(a) THEN a.feeShareTwitter ELSE "",
            IF UsesFeeShare(a) THEN a.creatorPercent ELSE <<>>, a.confirm)

\* The parameters of the prompt sessions explored, as a table.
SessionParams ==
    [a \in {Final(a) : a \in InteractiveAnswers \cup FewAnswers \cup CommandAnswers} |->
        InteractiveParams(a)]

\* The question asked after `q` was answered (part_000:43-99): the address
\* or the path of the image after the choice 1 or 2, the partner and the
\* percentage after a y.
Following(q, a) ==
    CASE q = "name" -> "symbol"
      [] q = "symbol" -> "description"
      [] q = "description" -> "twitter"
      [] q = "twitter" -> "telegram"
      [] q = "telegram" -> "website"
      [] q = "website" -> "imageChoice"
      [] q = "imageChoice" ->
            IF a.imageChoice = "1" THEN "imageUrl"
            ELSE IF a.imageChoice = "2" THEN "imagePath" ELSE "initialBuyStr"
      [] q = "imageUrl" -> "initialBuyStr"
      [] q = "imagePath" -> "initialBuyStr"
      [] q = "initialBuyStr" -> "useFeeShare"
      [] q = "useFeeShare" -> IF UsesFeeShare(a) THEN "feeShareTwitter" ELSE "confirm"
      [] q = "feeShareTwitter" -> "creatorPercent"
      [] q = "creatorPercent" -> "confirm"

\* The sessions a user can type: those of the command while it runs.
Sessions ==
    IF cli.stage = "launching" THEN CommandAnswers
    ELSE IF stdin = "few" THEN FewAnswers ELSE InteractiveAnswers
\* The typed session `a` is what was answered so far.
Agrees(a) == \A q \in answers.answered \cap Deciding : a[q] = answers[q]
\* The lines that can be typed at the question `q`: those of the sessions
\* that agree with the answers so far; a text that decides nothing is not kept.
Lines(q) == IF q \in Deciding THEN {a[q] : a \in {s \in Sessions : Agrees(s)}} ELSE {""}
\* The answers once `line` has been read at the question `q`.
Answer(q, line) ==
    IF q \in Deciding
       THEN [answers EXCEPT ![q] = line, !.answered = @ \cup {q}]
       ELSE [answers EXCEPT !.answered = @ \cup {q}]

\* What launchInteractive throws before it calls launchToken: the file of
\* the image cannot be read (part_000:61), the user does not confirm
\* (part_000:101-103).  The session is over and `prompt` tells how it ended.
Thrown == {"FileReadError", "LaunchCancelled"}

\* launchInteractive() is entered while no other operation runs
\* (part_000:25-43): the readline interface is made and the first question
\* is asked.  Nothing is left of the operation that ran before.
OpenSession ==
    /\ prompt \notin Questions
    /\ pc \in {"idle", "done"}
    /\ launchNo < MaxLaunches
    /\ sessionNo < MaxSessions
    /\ parked = {}
    /\ sessionNo' = sessionNo + 1
    /\ UNCHANGED parked
    /\ prompt' = "name"
    /\ answers' = NoAnswers
    /\ pc' = "idle"
    /\ op' = "none"
    /\ outcome' = NoOutcome
    /\ trace' = <<>>
    /\ FreshLocals(NoParams)
    /\ UNCHANGED launchNo

\* launchInteractive() is called (part_000:25).
LaunchInteractive ==
    /\ OpenSession
    /\ stdin' = "any"
    /\ UNCHANGED cliVars

\* launchInteractive() is called (part_000:25) and the lines typed are those
\* of FewAnswers.
LaunchInteractiveFew ==
    /\ OpenSession
    /\ stdin' = "few"
    /\ UNCHANGED cliVars

\* `await question(...)` (part_000:31-37, 43-76): the line typed is read by
\* the callback of rl.question and the next question is asked.
Question ==
    /\ prompt \in Questions \ {"imagePath", "confirm"}
    /\ \E line \in Lines(prompt) :
        /\ answers' = Answer(prompt, line)
        /\ prompt' = Following(prompt, Answer(prompt, line))
    /\ UNCHANGED <<pc, op, launchNo, sessionNo, stdin, parked, cliVars, locals, claimLocals, txVars, outcome, trace,
                   calls, envVars>>

\* The path of the image is typed and the file is read (part_000:60-61):
\* readFileSync throws, which ends launchInteractive (part_000:110-113), or
\* the next question is asked.  Nothing else changes: launchToken is not
\* called, and a launch under way goes on.
ImagePath ==
    /\ prompt = "imagePath"
    /\ \E line \in Lines(prompt) : answers' = Answer(prompt, line)
    /\ prompt' \in {"initialBuyStr", "FileReadError"}
    /\ UNCHANGED <<pc, op, launchNo, sessionNo, stdin, parked, cliVars, locals, claimLocals, txVars, outcome,
                   trace, calls, envVars>>

\* The last question is answered (part_000:99-108).  Without a y the launch
\* is cancelled (part_000:101-103): the error is thrown, launchToken is not
\* called and nothing else changes, a launch under way goes on.  With a y
\* launchToken(params) is called with the parameters built from the answers
\* (part_000:77-94, 105-108), whatever else is going on: a launch under way
\* stays in flight beside the new one, waiting at its awaited call.
Confirm ==
    /\ prompt = "confirm"
    /\ \E line \in Lines(prompt) :
        /\ answers' = Answer(prompt, line)
        /\ IF Cancelled(Answer(prompt, line))
              THEN /\ prompt' = "LaunchCancelled"
                   /\ UNCHANGED <<pc, op, launchNo, parked, locals, claimLocals, txVars, outcome,
                                  trace, calls, envVars>>
              ELSE /\ prompt' = "none"
                   /\ EnterLaunch(SessionParams[Final(Answer(prompt, line))])
                   /\ parked' = IF pc \in {"idle", "done"} THEN parked
                                 ELSE parked \cup {Running}
    /\ UNCHANGED <<sessionNo, stdin, cliVars>>

\* The call that another launch in flight awaits is the next to settle: that
\* launch goes on from where it waits, and the one that ran, unless it has
\* ended, waits in turn.
Resume ==
    /\ \E x \in parked :
        /\ parked' = (parked \ {x}) \cup (IF pc \in {"idle", "done"} THEN {} ELSE {Running})
        /\ pc' = x.pc
        /\ op' = x.op
        /\ params' = x.locals[1]
        /\ configResponse' = x.locals[2]
        /\ tokenInfo' = x.locals[3]
        /\ finalConfigKey' = x.locals[4]
        /\ feeShareWallet' = x.locals[5]
        /\ fsWallet' = x.locals[6]
        /\ imageBlob' = x.locals[7]
        /\ transaction' = x.txVars[1]
        /\ txStage' = x.txVars[2]
        /\ blockhash' = x.txVars[3]
        /\ signature' = x.txVars[4]
        /\ confirmation' = x.txVars[5]
        /\ outcome' = x.outcome
        /\ trace' = x.trace
        /\ calls' = x.calls
    /\ UNCHANGED <<launchNo, answers, prompt, sessionNo, stdin, cliVars, claimLocals, envVars>>

\* The input ends while a question waits (part_000:26-37): readline closes,
\* the callback of rl.question is never called and the promise of
\* launchInteractive stays pending, so that the lines read so far are never
\* used.  The `launch` command then runs out of work, and its process ends
\* with status 0 (main-enhanced.ts:36-38).
EndOfInput ==
    /\ prompt \in Questions
    /\ prompt' = "closed"
    /\ answers' = NoAnswers
    /\ cli' = IF cli.stage = "launching" THEN [cli EXCEPT !.stage = "exit0"] ELSE cli
    /\ UNCHANGED <<pc, op, launchNo, sessionNo, stdin, parked, records, locals, claimLocals, txVars, outcome,
                   trace, calls, envVars>>

\* ----------------------------------------------------- the launch command
\* The options of `launch` (main-enhanced.ts:29-38); commander leaves an
\* option that was not given undefined.  `stage` is how far the run got.
LaunchOptions(i, c, q) ==
    [stage |-> "launching", interactive |-> i, config |-> c, quick |-> q]
NoLaunchCommand ==
    [stage |-> "none", interactive |-> FALSE, config |-> None, quick |-> FALSE]

\* The command lines explored: each option alone, none, and the combinations
\* in which an earlier branch of launchToken(options) wins over a later one.
CommandLines ==
    { LaunchOptions(TRUE, None, FALSE), LaunchOptions(TRUE, Some("launch.json"), TRUE),
      LaunchOptions(FALSE, Some("launch.json"), FALSE),
      LaunchOptions(FALSE, Some("image.json"), FALSE),
      LaunchOptions(FALSE, Some("noimage.json"), FALSE),
      LaunchOptions(FALSE, Some("missing.json"), FALSE),
      LaunchOptions(FALSE, Some("launch.json"), TRUE),
      LaunchOptions(FALSE, None, TRUE), LaunchOptions(FALSE, None, FALSE) }

\* The parameters of `launch -q` (main-enhanced.ts:116-122): texts and the
\* buy amount from the environment, TOKEN_IMAGE_URL set or not.
QuickParams == {LaunchParams(None, None, None, u, None) : u \in {None, Some("url")}}

\* JSON.parse of the configuration file (part_000:127-128): None when the file
\* cannot be read or parsed; imageFile is a path in the file, read only when
\* it is a non-empty string (part_000:131-133).
ConfigFile(path) ==
    CASE path = "launch.json" ->
            Some(LaunchParams(Some("alice"), Some(2500), Some(7500), None, None))
      [] path = "image.json" ->
            Some(LaunchParams(None, None, None, None, Some("logo.png")))
      [] path = "noimage.json" ->
            Some(LaunchParams(None, None, None, None, Some("")))
      [] OTHER -> None

\* A run of the command that ends before launchToken is called: no launch
\* is counted.  The run is a new process, so that its locals and the calls it
\* made are empty: nothing of an earlier run is in its memory.
NoLaunch ==
    /\ UNCHANGED launchNo
    /\ FreshLocals(NoParams)

\* launchFromConfig ends before it launches: launchToken is not called.
LeaveFromConfig(err) ==
    /\ NoLaunch
    /\ op' = "launchFromConfig"
    /\ pc' = "done"
    /\ outcome' = [NoOutcome EXCEPT !.kind = "error", !.error = err]
    /\ trace' = <<>>

\* launchFromConfig(configPath) (part_000:126-136): the file is read and
\* parsed, the image file it names is read, launchToken(config) is called.
LaunchFromConfig(path) ==
    LET config == ConfigFile(path) IN
    IF config = None
       THEN LeaveFromConfig("FileReadError")
       ELSE IF TruthyStr(config[1].imageFile)
               THEN \/ LeaveFromConfig("FileReadError")
                    \/ StartLaunch([config[1] EXCEPT !.imageFile = Some("buffer")])
               ELSE StartLaunch(config[1])

\* The command ends before its try block: the environment is incomplete or
\* the keypair cannot be loaded (main-enhanced.ts:92-105).
LeaveCommand(err) ==
    /\ NoLaunch
    /\ op' = "launchCommand"
    /\ pc' = "done"
    /\ outcome' = [NoOutcome EXCEPT !.kind = "error", !.error = err]
    /\ trace' = <<>>

\* `launch` is run: launchToken(options) of the command line
\* (main-enhanced.ts:36-38, 91-127).  Each run is a process of its own.
LaunchCommand ==
    /\ cli.stage # "launching"
    /\ UNCHANGED records
    /\ \E o \in CommandLines :
        \/ /\ cli' = [o EXCEPT !.stage = "exit1"]
           /\ LeaveCommand("ConfigError")
           /\ answers' = NoAnswers /\ prompt' = "none" /\ UNCHANGED <<sessionNo, stdin, parked>>
        \/ /\ cli' = o
           /\ IF o.interactive
                 THEN OpenSession /\ UNCHANGED stdin
                 ELSE IF o.config # None
                         THEN /\ LaunchFromConfig(o.config[1])
                              /\ answers' = NoAnswers /\ prompt' = "none" /\ UNCHANGED <<sessionNo, stdin, parked>>
                         ELSE IF o.quick
                                 THEN /\ \E p \in QuickParams : StartLaunch(p)
                                      /\ answers' = NoAnswers /\ prompt' = "none" /\ UNCHANGED <<sessionNo, stdin, parked>>
                                 ELSE OpenSession /\ UNCHANGED stdin

\* Mutant of LaunchFile: the file is named after the signature.
LaunchFile_Signature(result) == result.signature

\* `launches/${result.tokenMint}.json` (main-enhanced.ts:135)
LaunchFile(result) == result.tokenMint

\* JSON.stringify(result, null, 2) (main-enhanced.ts:137): the fields of the
\* LaunchResult; metadataUrl and bagsUrl are functions of the token mint.
LaunchRecord(result) ==
    [tokenMint |-> result.tokenMint, signature |-> result.signature,
     configKey |-> result.configKey, feeShareWallet |-> result.feeShareWallet]

\* fs.writeFileSync(file, content): the file is created or replaced.
WriteFile(files, file, content) ==
    {f \in files : f.file # file} \cup {[file |-> file, content |-> content]}

\* The launch returned its result: the command prints it and writes
\* launches/<mint>.json (main-enhanced.ts:129-138); mkdirSync or writeFileSync
\* may throw, which the catch reports before exit(1) (main-enhanced.ts:140-143).
SaveLaunch ==
    /\ cli.stage = "launching" /\ pc = "done" /\ outcome.kind = "result"
    /\ \/ /\ records' = WriteFile(records, LaunchFile(outcome), LaunchRecord(outcome))
          /\ cli' = [cli EXCEPT !.stage = "exit0"]
       \/ /\ UNCHANGED records
          /\ cli' = [cli EXCEPT !.stage = "exit1"]
    /\ UNCHANGED <<pc, op, launchNo, answers, prompt, sessionNo, stdin, parked, locals, claimLocals, txVars, outcome,
                   trace, calls, envVars>>

\* The launch threw, or launchInteractive threw before it: the command
\* reports it and exits with status 1 (main-enhanced.ts:140-143).
LaunchFailed ==
    /\ cli.stage = "launching"
    /\ \/ pc = "done" /\ outcome.kind = "error"
       \/ prompt \in Thrown
    /\ cli' = [cli EXCEPT !.stage = "exit1"]
    /\ UNCHANGED <<pc, op, launchNo, answers, prompt, sessionNo, stdin, parked, records, locals, claimLocals, txVars,
                   outcome, trace, calls, envVars>>

\* -------------------------------------------------------------- claimFees
\* Token mints of claimable positions, and the positions the protocol can
\* report: a base mint and the number of claim transactions it will issue.
Mints == {1, 2}
Positions == [baseMint : Mints, txs : 0..MaxClaimTxs]
SeqsUpTo(S, n) == UNION {[1..k -> S] : k \in 0..n}
PositionLists == SeqsUpTo(Positions, MaxPositions)
MintFilters == {None} \cup {Some(m) : m \in Mints \cup {3}}

\* Mutant of TargetPositions: the mint is ignored.
TargetPositions_Unfiltered(ps, mint) == ps

\* targetPositions (bags.ts:294-297): `tokenMint ? positions.filter(...) : positions`
TargetPositions(ps, mint) ==
    IF mint # None /\ Truthy(mint[1]) THEN SelectSeq(ps, LAMBDA q : q.baseMint = mint[1]) ELSE ps

\* Mutant of ReturnSignatures: the list is returned newest first.
ReturnSignatures_NewestFirst(sigs) ==
    /\ pc' = "done"
    /\ outcome' = [NoOutcome EXCEPT !.kind = "result",
                       !.signatures = [k \in 1..Len(sigs) |-> sigs[Len(sigs) + 1 - k]]]

\* `return signatures` / `return []` (bags.ts:291, 317)
ReturnSignatures(sigs) ==
    /\ pc' = "done"
    /\ outcome' = [NoOutcome EXCEPT !.kind = "result", !.signatures = sigs]

\* The outer loop moves to the next position or ends (bags.ts:301, 315-317).
NextPosition(sigs) ==
    IF posIdx < Len(targetPositions)
       THEN /\ pc' = "getClaimTransaction"
            /\ posIdx' = posIdx + 1
            /\ UNCHANGED outcome
       ELSE /\ ReturnSignatures(sigs)
            /\ UNCHANGED posIdx

\* The `claim` command line: no command (a direct call of claimFees), or
\* `claim` with or without `-t <mint>` (main-enhanced.ts:50-55).
NoCommand == [command |-> "none", token |-> None]
ClaimOptions == {[command |-> "claim", token |-> t] : t \in MintFilters}

\* Mutant of NoPositions: the empty list is not told apart.
NoPositions_Never(ps) == FALSE

\* `positions.length === 0` (bags.ts:289, part_000:169)
NoPositions(ps) == Len(ps) = 0

\* claimFees starts with its argument (bags.ts:284-287).
EnterClaimFees(mint) ==
    /\ op' = "claimFees"
    /\ pc' = "getClaimablePositions"
    /\ tokenMint' = mint
    /\ targetPositions' = <<>>
    /\ posIdx' = 0
    /\ claimTxs' = 0
    /\ txIdx' = 0
    /\ signatures' = <<>>

\* A claim operation starts with nothing called yet.  Each run of the `claim`
\* command is a process of its own with a new BagsProtocol
\* (main-enhanced.ts:172-175), and claimFees keeps nothing from one call to
\* the next, so a behaviour holds one claim operation.
StartClaim ==
    /\ pc = "idle"
    /\ transaction' = NoTx
    /\ txStage' = "none"
    /\ blockhash' = 0
    /\ signature' = 0
    /\ confirmation' = None
    /\ trace' = <<>>
    /\ calls' = <<>>
    /\ UNCHANGED <<entryVars, locals, envVars>>

\* claimFees(tokenMint) is called (bags.ts:284-287).
ClaimFees ==
    /\ StartClaim
    /\ \E mint \in MintFilters : EnterClaimFees(mint)
    /\ positions' = <<>>
    /\ options' = NoCommand
    /\ outcome' = NoOutcome

\* The `claim` command: claimFees(options.token) of the command line checks the
\* environment, builds the launcher and calls claimAllFees()
\* (main-enhanced.ts:50-55, 163-176).
ClaimCommand ==
    /\ StartClaim
    /\ \E o \in ClaimOptions : options' = o
    /\ op' = "claimCommand"
    /\ tokenMint' = None
    /\ positions' = <<>>
    /\ targetPositions' = <<>>
    /\ posIdx' = 0
    /\ claimTxs' = 0
    /\ txIdx' = 0
    /\ signatures' = <<>>
    /\ \/ /\ pc' = "done"
          /\ outcome' = [NoOutcome EXCEPT !.kind = "error", !.error = "ConfigError"]
       \/ /\ pc' = "claimAllFees"
          /\ outcome' = NoOutcome

\* TokenLauncher.claimAllFees: the positions are fetched and listed, then
\* claimFees() is called without an argument (part_000:164-190).
ClaimAllFees ==
    /\ op = "claimCommand" /\ pc = "claimAllFees"
    /\ \/ /\ calls' = Append(calls,
                 Call("sdk.fee.getAllClaimablePositions", "threw", NoTx, 0, 0, <<>>))
          /\ Throw("ProtocolError")
          /\ UNCHANGED <<op, tokenMint, positions, targetPositions, posIdx, claimTxs,
                         txIdx, signatures>>
       \/ \E ps \in PositionLists :
            /\ calls' = Append(calls,
                   Call("sdk.fee.getAllClaimablePositions", "ok", NoTx, 0, 0, <<>>))
            /\ positions' = ps
            /\ IF NoPositions(ps)
                  THEN /\ ReturnSignatures(<<>>)
                       /\ UNCHANGED <<op, tokenMint, targetPositions, posIdx, claimTxs,
                                      txIdx, signatures>>
                  ELSE /\ EnterClaimFees(None)
                       /\ UNCHANGED outcome
            /\ UNCHANGED <<trace, txStage>>
    /\ UNCHANGED <<entryVars, locals, options, transaction, blockhash, signature,
                   confirmation, envVars>>

\* The positions are fetched and filtered (bags.ts:287-301).
GetClaimablePositions ==
    /\ op = "claimFees" /\ pc = "getClaimablePositions"
    /\ \/ /\ calls' = Append(calls,
                 Call("sdk.fee.getAllClaimablePositions", "threw", NoTx, 0, 0, <<>>))
          /\ Throw("ProtocolError")
          /\ UNCHANGED <<positions, targetPositions, posIdx>>
       \/ \E ps \in PositionLists :
            /\ calls' = Append(calls,
                   Call("sdk.fee.getAllClaimablePositions", "ok", NoTx, 0, 0, <<>>))
            /\ positions' = ps
            /\ IF NoPositions(ps)
                  THEN /\ ReturnSignatures(<<>>)
                       /\ UNCHANGED <<targetPositions, posIdx>>
                  ELSE /\ targetPositions' = TargetPositions(ps, tokenMint)
                       /\ IF Len(targetPositions') = 0
                             THEN /\ ReturnSignatures(signatures)
                                  /\ UNCHANGED posIdx
                             ELSE /\ pc' = "getClaimTransaction"
                                  /\ posIdx' = 1
                                  /\ UNCHANGED outcome
            /\ UNCHANGED <<trace, txStage>>
    /\ UNCHANGED <<op, entryVars, locals, tokenMint, claimTxs, txIdx, signatures, options,
                   transaction, blockhash, signature, confirmation, envVars>>

\* The claim transactions of one position are requested and the first one is
\* signed and sent (bags.ts:301-311).
GetClaimTransaction ==
    /\ op = "claimFees" /\ pc = "getClaimTransaction"
    /\ LET position == targetPositions[posIdx] IN
         /\ \/ /\ calls' = Append(calls,
                      Call("sdk.fee.getClaimTransaction", "threw",
                           ClaimTx(position.baseMint, posIdx, 0), 0, 0, <<>>))
               /\ Throw("ProtocolError")
               /\ UNCHANGED <<posIdx, claimTxs, txIdx, transaction, blockhash,
                              signature, confirmation>>
            \/ /\ calls' = Append(calls,
                      Call("sdk.fee.getClaimTransaction", "ok",
                           ClaimTx(position.baseMint, posIdx, 0), 0, 0, <<>>))
               /\ claimTxs' = position.txs
               /\ IF position.txs = 0
                     THEN /\ NextPosition(signatures)
                          /\ txIdx' = 0
                          /\ UNCHANGED txVars
                     ELSE /\ txIdx' = 1
                          /\ EnterSendTransaction(Sign(ClaimTx(position.baseMint, posIdx, 1)))
                          /\ UNCHANGED <<posIdx, outcome>>
               /\ UNCHANGED trace
    /\ UNCHANGED <<op, entryVars, locals, tokenMint, positions, targetPositions,
                   signatures, options, envVars>>

\* A claim transaction was confirmed: its signature is kept and the loops go
\* on (bags.ts:309-317).
ClaimSent ==
    /\ op = "claimFees" /\ pc = "sendTransaction" /\ txStage = "returned"
    /\ signatures' = Append(signatures, signature)
    /\ IF txIdx < claimTxs
          THEN /\ txIdx' = txIdx + 1
               /\ EnterSendTransaction(
                      Sign(ClaimTx(targetPositions[posIdx].baseMint, posIdx, txIdx + 1)))
               /\ UNCHANGED <<posIdx, outcome>>
          ELSE /\ NextPosition(signatures')
               /\ txStage' = "none"
               /\ UNCHANGED <<txIdx, transaction, blockhash, signature, confirmation>>
    /\ UNCHANGED <<op, entryVars, locals, tokenMint, positions, targetPositions,
                   claimTxs, options, trace, calls, envVars>>

\* ------------------------------------------------------- the specification
Init ==
    /\ pc = "idle"
    /\ op = "none"
    /\ launchNo = 0
    /\ tokenMint = None
    /\ positions = <<>>
    /\ targetPositions = <<>>
    /\ posIdx = 0
    /\ claimTxs = 0
    /\ txIdx = 0
    /\ signatures = <<>>
    /\ options = NoCommand
    /\ answers = NoAnswers
    /\ prompt = "none"
    /\ sessionNo = 0
    /\ stdin = "any"
    /\ parked = {}
    /\ params = NoParams
    /\ configResponse = NoKey
    /\ tokenInfo = None
    /\ finalConfigKey = NoKey
    /\ feeShareWallet = None
    /\ fsWallet = None
    /\ imageBlob = NoBlob
    /\ transaction = NoTx
    /\ txStage = "none"
    /\ blockhash = 0
    /\ signature = 0
    /\ confirmation = None
    /\ outcome = NoOutcome
    /\ trace = <<>>
    /\ calls = <<>>
    /\ configOnChain \in BOOLEAN
    /\ slot = 1
    /\ sent = 0
    /\ published = 0
    /\ submitted = [k \in TxKinds |-> 0]
    /\ landed = {}
    /\ resolved = {}
    /\ cli = NoLaunchCommand
    /\ records = {}

LaunchToken == LaunchTokenWith(LaunchInputs)

Next ==
    \/ LaunchToken
    \/ GetOrCreateConfig
    \/ ConfigCreated
    \/ CreateTokenInfo
    \/ ResponseBlob
    \/ CreateTokenInfoAndMetadata
    \/ GetLaunchWallet
    \/ CreateFeeShareConfig
    \/ FeeShareConfigured
    \/ CreateLaunchTransaction
    \/ LaunchResult
    \/ GetLatestBlockhash
    \/ SendTransaction
    \/ ConfirmTransaction

Spec == Init /\ [][Next]_vars

\* claiming fees: claimFees called directly, or the `claim` command
NextClaim ==
    \/ ClaimFees
    \/ ClaimCommand
    \/ ClaimAllFees
    \/ GetClaimablePositions
    \/ GetClaimTransaction
    \/ ClaimSent
    \/ GetLatestBlockhash
    \/ SendTransaction
    \/ ConfirmTransaction

SpecClaim == Init /\ [][NextClaim]_vars

\* launches that request no fee sharing
LaunchTokenNoFeeShare == LaunchTokenWith({p \in LaunchInputs : ~HasFeeShare(p)})

NextResolver ==
    \/ LaunchTokenNoFeeShare
    \/ GetOrCreateConfig
    \/ ConfigCreated
    \/ CreateTokenInfo
    \/ ResponseBlob
    \/ CreateTokenInfoAndMetadata
    \/ CreateLaunchTransaction
    \/ LaunchResult
    \/ GetLatestBlockhash
    \/ SendTransaction
    \/ ConfirmTransaction

SpecResolver == Init /\ [][NextResolver]_vars

\* quickLaunch(params) (part_000:119-121), which a caller may call while
\* launchInteractive waits at a question.
QuickLaunch == LaunchTokenWith({NoParams})

\* launches made through the prompts of launchInteractive, and quick ones
NextInteractive ==
    \/ Resume
    \/ LaunchInteractive
    \/ Question
    \/ ImagePath
    \/ Confirm
    \/ EndOfInput
    \/ QuickLaunch
    \/ GetOrCreateConfig
    \/ ConfigCreated
    \/ CreateTokenInfo
    \/ ResponseBlob
    \/ CreateTokenInfoAndMetadata
    \/ GetLaunchWallet
    \/ CreateFeeShareConfig
    \/ FeeShareConfigured
    \/ CreateLaunchTransaction
    \/ LaunchResult
    \/ GetLatestBlockhash
    \/ SendTransaction
    \/ ConfirmTransaction

SpecInteractive == Init /\ [][NextInteractive]_vars

\* launches made through the prompts beside the launches of another caller
NextConcurrent ==
    \/ Resume
    \/ LaunchInteractiveFew
    \/ Question
    \/ Confirm
    \/ EndOfInput
    \/ QuickLaunch
    \/ GetOrCreateConfig
    \/ ConfigCreated
    \/ CreateTokenInfo
    \/ ResponseBlob
    \/ CreateTokenInfoAndMetadata
    \/ GetLaunchWallet
    \/ CreateFeeShareConfig
    \/ FeeShareConfigured
    \/ CreateLaunchTransaction
    \/ LaunchResult
    \/ GetLatestBlockhash
    \/ SendTransaction
    \/ ConfirmTransaction

SpecConcurrent == Init /\ [][NextConcurrent]_vars

\* launches made by the `launch` command, which saves their results
NextCommand ==
    \/ LaunchCommand
    \/ Question
    \/ ImagePath
    \/ Confirm
    \/ EndOfInput
    \/ SaveLaunch
    \/ LaunchFailed
    \/ GetOrCreateConfig
    \/ ConfigCreated
    \/ CreateTokenInfo
    \/ ResponseBlob
    \/ CreateTokenInfoAndMetadata
    \/ GetLaunchWallet
    \/ CreateFeeShareConfig
    \/ FeeShareConfigured
    \/ CreateLaunchTransaction
    \/ LaunchResult
    \/ GetLatestBlockhash
    \/ SendTransaction
    \/ ConfirmTransaction

SpecCommand == Init /\ [][NextCommand]_vars

\* every operation that submits transactions: launches with and without a
\* partner, or one claim operation.  BagsProtocol keeps nothing between
\* operations, so a behaviour holds launches or a claim, not both.
SubmitInputs == {NoParams, LaunchParams(Some("alice"), None, None, None, None)}
LaunchTokenSubmit ==
    /\ op \notin {"claimFees", "claimCommand"}
    /\ LaunchTokenWith(SubmitInputs)

NextSubmit ==
    \/ LaunchTokenSubmit
    \/ ClaimFees
    \/ ClaimCommand
    \/ ClaimAllFees
    \/ GetClaimablePositions
    \/ GetClaimTransaction
    \/ ClaimSent
    \/ GetOrCreateConfig
    \/ ConfigCreated
    \/ CreateTokenInfo
    \/ ResponseBlob
    \/ CreateTokenInfoAndMetadata
    \/ GetLaunchWallet
    \/ CreateFeeShareConfig
    \/ FeeShareConfigured
    \/ CreateLaunchTransaction
    \/ LaunchResult
    \/ GetLatestBlockhash
    \/ SendTransaction
    \/ ConfirmTransaction

SpecSubmit == Init /\ [][NextSubmit]_vars

\* ================================================================= claims
CallsOf(names) == {k \in 1..Len(calls) : calls[k].op \in names}
ConnectionOps ==
    {"connection.getLatestBlockhash", "connection.sendTransaction",
     "connection.confirmTransaction"}
FetchOps == {"fetch.url", "fetch.default"}
FeeShareOps ==
    {"sdk.state.getLaunchWalletForTwitterUsername", "sdk.config.createFeeShareConfig"}
Terminal == {"CONFIRMED", "FAILED"}

\* The sequencer states that may directly follow a state.
Successors(phase) ==
    CASE phase = "START" -> {"CONFIG_RESOLVED", "FAILED"}
      [] phase = "CONFIG_RESOLVED" -> {"METADATA_PUBLISHED", "FAILED"}
      [] phase = "METADATA_PUBLISHED" ->
            {"FEE_SHARE_CONFIGURED", "LAUNCH_SUBMITTED", "FAILED"}
      [] phase = "FEE_SHARE_CONFIGURED" -> {"LAUNCH_SUBMITTED", "FAILED"}
      [] phase = "LAUNCH_SUBMITTED" -> {"CONFIRMED", "FAILED"}
      [] OTHER -> {}

TraceInOrder ==
    trace # <<>> =>
        /\ trace[1] = "START"
        /\ \A k \in 1..(Len(trace) - 1) : trace[k + 1] \in Successors(trace[k])
        /\ \A i, j \in 1..Len(trace) : i # j => trace[i] # trace[j]

\* A call made by a step of a launch belongs to the state the launch is in:
\* configuration calls in START, metadata calls in CONFIG_RESOLVED, fee-share
\* calls in METADATA_PUBLISHED, the launch transaction built after the
\* fee-share setup (or after metadata when there is none) and sent in
\* LAUNCH_SUBMITTED.
CallInPhase ==
    (op = "launchToken" /\ op' = "launchToken" /\ Len(calls') = Len(calls) + 1) =>
        LET c == Last(calls')
            phase == Last(trace)
            kind == transaction'.kind
        IN  CASE phase = "START" ->
                    \/ c.op = "sdk.config.getOrCreateConfig"
                    \/ c.op \in ConnectionOps /\ kind = "config"
              [] phase = "CONFIG_RESOLVED" ->
                    c.op \in FetchOps \cup {"sdk.tokenLaunch.createTokenInfoAndMetadata"}
              [] phase = "METADATA_PUBLISHED" ->
                    \/ c.op \in FeeShareOps
                    \/ c.op \in ConnectionOps /\ kind = "feeShare"
                    \/ /\ c.op = "sdk.tokenLaunch.createLaunchTransaction"
                       /\ CallsOf(FeeShareOps) = {}
              [] phase = "FEE_SHARE_CONFIGURED" ->
                    c.op = "sdk.tokenLaunch.createLaunchTransaction"
              [] phase = "LAUNCH_SUBMITTED" -> c.op \in ConnectionOps /\ kind = "launch"
              [] OTHER -> FALSE

\* A finished launch does nothing more; only a new launch may start.
TerminalIsFinal ==
    (trace # <<>> /\ Last(trace) \in Terminal) =>
        \/ trace' = trace /\ calls' = calls /\ outcome' = outcome
        \/ launchNo' = launchNo + 1 /\ trace' = <<"START">>

\* C1: a launch enters its states in the order START, CONFIG_RESOLVED,
\* METADATA_PUBLISHED, [FEE_SHARE_CONFIGURED], LAUNCH_SUBMITTED, then CONFIRMED
\* or FAILED, each at most once; every call is made in the state its step
\* belongs to, so one step completes before the next starts; CONFIRMED and
\* FAILED are left by no step of that launch.
C1_LaunchOrder == [](TraceInOrder) /\ [][CallInPhase /\ TerminalIsFinal]_vars

\* C1 witness: a launch with a creation transaction and fee sharing reached
\* CONFIRMED through all six states.
C1_Witness ==
    /\ trace = <<"START", "CONFIG_RESOLVED", "METADATA_PUBLISHED",
                 "FEE_SHARE_CONFIGURED", "LAUNCH_SUBMITTED", "CONFIRMED">>
    /\ \E k \in CallsOf({"connection.sendTransaction"}) : calls[k].tx.kind = "config"
    /\ \E k \in CallsOf({"connection.sendTransaction"}) : calls[k].tx.kind = "feeShare"

\* C2: a failed step of a launch (a call that threw, a missing wallet, a
\* confirmation error, an image fetch answered with a non-success status) is
\* the last call the launch makes: the launch is FAILED, the caller gets the
\* error and no LaunchResult, nothing is called afterwards, and a published
\* token identity stays published.
C2_FailureEndsLaunch ==
    op = "launchToken" =>
        \A k \in 1..Len(calls) :
            calls[k].result # "ok" =>
                /\ k = Len(calls)
                /\ pc = "done"
                /\ outcome.kind = "error"
                /\ Last(trace) = "FAILED"
                /\ tokenInfo # None => published >= tokenInfo[1]

\* The entry list of a createFeeShareConfig call: its two bps values.
CreatorBpsSent(k) == calls[k].users[1][2]
ShareBpsSent(k) == calls[k].users[2][2]

\* C3: every entry list sent to createFeeShareConfig has bps summing to 10000.
C3_SplitSumsToTotal ==
    \A k \in CallsOf({"sdk.config.createFeeShareConfig"}) :
        CreatorBpsSent(k) + ShareBpsSent(k) = TotalBps

\* Both bps values are supplied and are negative or do not sum to 10000.
InvalidExplicitSplit(p) ==
    /\ p.creatorFeeBps # None /\ p.feeShareBps # None
    /\ \/ p.creatorFeeBps[1] < 0
       \/ p.feeShareBps[1] < 0
       \/ p.creatorFeeBps[1] + p.feeShareBps[1] # TotalBps

\* C4: with an invalid explicit split the fee-share setup fails with
\* InvalidSplit before it calls the protocol: no wallet lookup, no
\* createFeeShareConfig, no fee-share transaction.
C4_InvalidSplitRejected ==
    (op = "launchToken" /\ HasFeeShare(params) /\ InvalidExplicitSplit(params)) =>
        /\ CallsOf(FeeShareOps) = {}
        /\ \A k \in CallsOf({"connection.sendTransaction"}) : calls[k].tx.kind # "feeShare"
        /\ (pc = "done" /\ "METADATA_PUBLISHED" \in {trace[i] : i \in 1..Len(trace)}) =>
               outcome.error = "InvalidSplit"

\* The split the data model prescribes: an absent value is 10000 minus the
\* supplied one, and 1000 / 9000 when both are absent.
DerivedCreatorBps(p) ==
    IF p.creatorFeeBps # None THEN p.creatorFeeBps[1]
    ELSE IF p.feeShareBps # None THEN TotalBps - p.feeShareBps[1]
    ELSE DefaultCreatorFeeBps
DerivedShareBps(p) ==
    IF p.feeShareBps # None THEN p.feeShareBps[1]
    ELSE TotalBps - DerivedCreatorBps(p)

\* C5: when at most one bps value is supplied, the split sent is the derived
\* one: the absent value is 10000 minus the supplied one, 1000 / 9000 when
\* both are absent.
C5_AbsentBpsDerived ==
    (params.creatorFeeBps = None \/ params.feeShareBps = None) =>
        \A k \in CallsOf({"sdk.config.createFeeShareConfig"}) :
            /\ CreatorBpsSent(k) = DerivedCreatorBps(params)
            /\ ShareBpsSent(k) = DerivedShareBps(params)

\* C6: when the lookup finds no wallet for the handle the launch fails with
\* PartnerWalletNotFound; the lookup was made once, no fee-share configuration
\* was requested or submitted, no launch transaction was built or submitted.
C6_NoWalletFailsLaunch ==
    (op = "launchToken" /\ \E k \in CallsOf({"sdk.state.getLaunchWalletForTwitterUsername"}) :
                              calls[k].result = "null") =>
        /\ pc = "done"
        /\ outcome.kind = "error"
        /\ outcome.error = "PartnerWalletNotFound"
        /\ Last(trace) = "FAILED"
        /\ Cardinality(CallsOf({"sdk.state.getLaunchWalletForTwitterUsername"})) = 1
        /\ CallsOf({"sdk.config.createFeeShareConfig",
                    "sdk.tokenLaunch.createLaunchTransaction"}) = {}
        /\ \A k \in CallsOf({"connection.sendTransaction"}) :
               calls[k].tx.kind \notin {"feeShare", "launch"}
        /\ \A t \in landed : t.tx.kind = "launch" => t.tx.mint # tokenInfo[1]

\* C6 witness: a launch whose handle has no registered wallet has ended.
C6_Witness ==
    /\ op = "launchToken" /\ pc = "done"
    /\ params.feeShareTwitter = Some("bob")
    /\ \E k \in CallsOf({"sdk.state.getLaunchWalletForTwitterUsername"}) :
           calls[k].result = "null"

\* C7 as stated: over all resolver invocations of launches without fee sharing
\* the network is given at most one configuration-creation transaction.
C7_AtMostOneCreationSubmitted == submitted["config"] <= 1

\* C7 amended: at most one configuration-creation transaction is confirmed
\* without error; once the configuration exists no invocation submits a
\* creation transaction (a further one is submitted only after every earlier
\* one failed); every invocation that returns gives the same handle.
C7_AtMostOneCreationConfirmed ==
    /\ [](Cardinality({t \in landed : t.tx.kind = "config"}) <= 1)
    /\ [](Cardinality(resolved) <= 1)
    /\ [][configOnChain => submitted'["config"] = submitted["config"]]_vars

\* C7 witness: the second launch resolved the configuration the first launch
\* created, without a creation transaction of its own.
C7_Witness ==
    /\ launchNo = 2
    /\ "CONFIG_RESOLVED" \in {trace[i] : i \in 1..Len(trace)}
    /\ \A k \in CallsOf({"connection.sendTransaction"}) : calls[k].tx.kind # "config"
    /\ submitted["config"] = 1
    /\ \E t \in landed : t.tx.kind = "config"

\* C8: a confirmation that reports an error makes sendTransaction fail with
\* TransactionRejected and return no signature; sendTransaction returns, and a
\* LaunchResult carries a signature, only after a confirmation without error.
C8_RejectedConfirmationFails ==
    /\ (confirmation # None /\ confirmation # Some("null")) =>
           /\ txStage # "returned"
           /\ pc = "done"
           /\ outcome.kind = "error"
           /\ outcome.error = "TransactionRejected"
           /\ outcome.signature = 0
    /\ txStage = "returned" => confirmation = Some("null")
    /\ (op = "launchToken" /\ outcome.kind = "result") =>
           /\ confirmation = Some("null")
           /\ outcome.signature = signature

\* C8 witness: a confirmation reported an error and the operation has ended.
C8_Witness ==
    /\ confirmation = Some("InstructionError")
    /\ pc = "done"
    /\ Last(calls).op = "connection.confirmTransaction"

\* C9: in the log of calls every sendTransaction call is one marker fetch,
\* directly followed by one send, directly followed by one confirmation poll
\* that names the marker of that fetch and the signature of that send; after
\* a call of the three that failed, nothing more is called.
C9_OneFetchSendConfirm ==
    \A k \in 1..Len(calls) :
        /\ calls[k].op = "connection.getLatestBlockhash" =>
               /\ k < Len(calls) =>
                      calls[k + 1].op = "connection.sendTransaction"
               /\ \A j \in 1..Len(calls) :
                      (j # k /\ calls[j].op = "connection.getLatestBlockhash"
                             /\ calls[j].result = "ok" /\ calls[k].result = "ok")
                          => calls[j].marker # calls[k].marker
        /\ calls[k].op = "connection.sendTransaction" =>
               /\ k > 1
               /\ calls[k - 1].op = "connection.getLatestBlockhash"
               /\ calls[k - 1].result = "ok"
               /\ k < Len(calls) =>
                      calls[k + 1].op = "connection.confirmTransaction"
        /\ calls[k].op = "connection.confirmTransaction" =>
               /\ k > 2
               /\ calls[k - 1].op = "connection.sendTransaction"
               /\ calls[k - 1].result = "ok"
               /\ calls[k].sig = calls[k - 1].sig
               /\ calls[k].marker = calls[k - 2].marker
               /\ k < Len(calls) =>
                      calls[k + 1].op \notin {"connection.sendTransaction",
                                              "connection.confirmTransaction"}
        /\ (calls[k].op \in ConnectionOps /\ calls[k].result # "ok") => k = Len(calls)

\* C9 witness: one operation called sendTransaction at least twice, the last
\* call ending in a confirmation error.
C9_Witness ==
    /\ Cardinality(CallsOf({"connection.confirmTransaction"})) >= 2
    /\ Last(calls).op = "connection.confirmTransaction"
    /\ Last(calls).result = "err"

\* C10: while the claim transaction of a position that is not the last
\* selected one is being submitted, no step ends claimFees: a failed
\* submission is followed by the next position.
C10_ContinuesWithNextPosition ==
    [][(op = "claimFees" /\ pc = "sendTransaction" /\ posIdx < Len(targetPositions))
          => pc' # "done"]_vars

\* C11: when a claim transaction fails during claimFees, what the caller gets
\* holds the error together with the signatures of the claim transactions
\* confirmed so far.
C11_FailureReturnsSignatures ==
    (op = "claimFees" /\ pc = "done" /\ outcome.kind = "error"
        /\ calls # <<>> /\ Last(calls).op \in ConnectionOps) =>
        outcome.signatures = signatures

\* The attempts to send a transaction, the signatures of the transactions
\* confirmed without error, and the places <<position, index>> of the claim
\* transactions in issuance order, from position i on.
SendCalls == SelectSeq(calls, LAMBDA c : c.op = "connection.sendTransaction")
ConfirmedSigs ==
    LET ok == SelectSeq(calls, LAMBDA c : c.op = "connection.confirmTransaction"
                                            /\ c.result = "ok")
    IN  [k \in 1..Len(ok) |-> ok[k].sig]
RECURSIVE IssuedFrom(_)
IssuedFrom(i) ==
    IF i > Len(targetPositions) THEN <<>>
    ELSE [j \in 1..targetPositions[i].txs |-> <<i, j>>] \o IssuedFrom(i + 1)

\* C12: claimFees sends the claim transactions one at a time in issuance
\* order: the k-th transaction sent is the k-th issued (positions in list
\* order, transactions in the order returned), signed; a transaction is sent
\* only after every earlier one was confirmed; the signatures kept, and the
\* list returned, are the signatures of the confirmed transactions in that
\* order; after a submission that failed nothing more is sent.
C12_OneAtATimeInOrder ==
    op = "claimFees" =>
        /\ Len(SendCalls) <= Len(IssuedFrom(1))
        /\ \A k \in 1..Len(SendCalls) :
               /\ SendCalls[k].tx.ref = IssuedFrom(1)[k]
               /\ SendCalls[k].tx.kind = "claim"
               /\ SendCalls[k].tx.signed
               /\ SendCalls[k].tx.mint = targetPositions[SendCalls[k].tx.ref[1]].baseMint
        /\ \A j, k \in CallsOf({"connection.sendTransaction"}) :
               j < k => \E m \in (j + 1)..(k - 1) :
                            /\ calls[m].op = "connection.confirmTransaction"
                            /\ calls[m].result = "ok"
                            /\ calls[m].sig = calls[j].sig
        /\ IsPrefix(signatures, ConfirmedSigs)
        /\ Len(ConfirmedSigs) <= Len(signatures) + 1
        /\ (pc = "done" /\ outcome.kind = "result") =>
               /\ outcome.signatures = ConfirmedSigs
               /\ Len(ConfirmedSigs) = Len(IssuedFrom(1))
        /\ \A k \in 1..Len(calls) :
               (calls[k].op \in ConnectionOps /\ calls[k].result # "ok") =>
                   \A j \in (k + 1)..Len(calls) : calls[j].op # "connection.sendTransaction"

\* C12 witness: claimFees returned three signatures claimed from two positions.
C12_Witness ==
    /\ op = "claimFees" /\ pc = "done" /\ outcome.kind = "result"
    /\ Len(targetPositions) = 2
    /\ Len(outcome.signatures) = 3

\* C13: when the fetch of the claimable positions returns the empty list,
\* claimFees and claimAllFees end there: the caller gets the empty signature
\* list and no error, no claim transaction is requested and nothing is sent.
C13_NoPositionsNoClaims ==
    (op \in {"claimFees", "claimCommand"} /\ calls # <<>>
        /\ Last(calls).op = "sdk.fee.getAllClaimablePositions"
        /\ Last(calls).result = "ok"
        /\ positions = <<>>) =>
        /\ pc = "done"
        /\ outcome.kind = "result"
        /\ outcome.signatures = <<>>
        /\ CallsOf({"sdk.fee.getClaimTransaction"} \cup ConnectionOps) = {}
        /\ transaction = NoTx

\* C13 witness: the `claim` command ended in claimAllFees with no positions.
C13_Witness ==
    /\ op = "claimCommand" /\ pc = "done"
    /\ outcome.kind = "result"
    /\ Len(calls) = 1 /\ calls[1].result = "ok"
    /\ positions = <<>>

\* C14: claimFees called with a token mint requests and sends claim
\* transactions only for positions of that mint, each selected position being
\* one of the fetched positions; when no position has that mint it returns
\* the empty list and sends nothing.
C14_OnlyMatchingPositions ==
    (op = "claimFees" /\ tokenMint # None) =>
        /\ \A k \in CallsOf({"sdk.fee.getClaimTransaction", "connection.sendTransaction"}) :
               calls[k].tx.mint = tokenMint[1]
        /\ \A i \in 1..Len(targetPositions) : targetPositions[i].baseMint = tokenMint[1]
        /\ Len(targetPositions) =
               Cardinality({i \in 1..Len(positions) : positions[i].baseMint = tokenMint[1]})
        /\ (pc # "getClaimablePositions" /\ outcome.kind # "error"
               /\ \A i \in 1..Len(positions) : positions[i].baseMint # tokenMint[1]) =>
               /\ pc = "done"
               /\ outcome.kind = "result"
               /\ outcome.signatures = <<>>
               /\ CallsOf({"sdk.fee.getClaimTransaction"} \cup ConnectionOps) = {}

\* C14 witness: claimFees for mint 1 claimed from the second of two fetched
\* positions and left the first, of mint 2, alone.
C14_Witness ==
    /\ op = "claimFees" /\ pc = "done" /\ outcome.kind = "result"
    /\ tokenMint = Some(1)
    /\ Len(positions) = 2 /\ positions[1].baseMint = 2 /\ positions[2].baseMint = 1
    /\ Len(outcome.signatures) = 2

\* C15: every claim transaction the network accepted from a run of
\* `claim -t <mint>` belongs to a position whose base mint is that token.
C15_CommandClaimsTokenOnly ==
    (options.command = "claim" /\ options.token # None) =>
        \A k \in CallsOf({"connection.sendTransaction"}) :
            calls[k].result = "ok" => calls[k].tx.mint = options.token[1]

\* C16: a launch given no partner handle (undefined or empty) never enters
\* the fee-share state: no wallet lookup, no createFeeShareConfig call, no
\* fee-share transaction; when it reaches CONFIRMED it has published metadata
\* once and has sent one launch transaction.
C16_NoHandleNoFeeShare ==
    (op = "launchToken" /\ ~TruthyStr(params.feeShareTwitter)) =>
        /\ CallsOf(FeeShareOps) = {}
        /\ \A k \in CallsOf(ConnectionOps) : calls[k].tx.kind # "feeShare"
        /\ \A i \in 1..Len(trace) : trace[i] # "FEE_SHARE_CONFIGURED"
        /\ feeShareWallet = None
        /\ (trace # <<>> /\ Last(trace) = "CONFIRMED") =>
               /\ Cardinality(CallsOf({"sdk.tokenLaunch.createTokenInfoAndMetadata"})) = 1
               /\ Cardinality({k \in CallsOf({"connection.sendTransaction"}) :
                                  calls[k].tx.kind = "launch"}) = 1
               /\ Cardinality(CallsOf({"sdk.tokenLaunch.createLaunchTransaction"})) = 1

\* C16 witness: a launch with an empty handle reached CONFIRMED.
C16_Witness ==
    /\ op = "launchToken"
    /\ params.feeShareTwitter = Some("")
    /\ trace # <<>> /\ Last(trace) = "CONFIRMED"

\* The fetches a launch has made of each kind.
FetchesOf(name) == Cardinality(CallsOf({name}))

\* C17: the image of a publish comes from the URL when a URL is given, else
\* from the local buffer when one is given, else from the default placeholder:
\* with a URL only the URL is fetched (a buffer given with it is not used),
\* with a buffer alone nothing is fetched, with neither the placeholder is
\* fetched; one publish makes at most one fetch and uses one source.
C17_ImagePriority ==
    op = "launchToken" =>
        LET url == TruthyStr(params.imageUrl)
            file == TruthyStr(params.imageFile)
            chosen == imageBlob # NoBlob
        IN  /\ FetchesOf("fetch.url") + FetchesOf("fetch.default") <= 1
            /\ url => /\ FetchesOf("fetch.default") = 0
                      /\ chosen => (imageBlob.source = "url" /\ FetchesOf("fetch.url") = 1)
            /\ (~url /\ file) =>
                      /\ CallsOf(FetchOps) = {}
                      /\ chosen => imageBlob.source = "file"
            /\ (~url /\ ~file) =>
                      /\ FetchesOf("fetch.url") = 0
                      /\ chosen => (imageBlob.source = "default"
                                         /\ FetchesOf("fetch.default") = 1)
            /\ CallsOf({"sdk.tokenLaunch.createTokenInfoAndMetadata"}) # {} => chosen

\* C17 witness: a launch given both a URL and a buffer has published metadata.
C17_Witness ==
    /\ op = "launchToken"
    /\ params.imageUrl = Some("url") /\ params.imageFile = Some("buffer")
    /\ tokenInfo # None
    /\ imageBlob.source = "url"

\* C18: an image fetch that ends in a network error or in a non-success
\* status fails the publish: the launch ends with an error, the fetch is the
\* last call made (no createTokenInfoAndMetadata call, no second fetch) and no
\* token identity is produced.
C18_FailedFetchFailsPublish ==
    op = "launchToken" =>
        \A k \in CallsOf(FetchOps) :
            calls[k].result # "ok" =>
                /\ k = Len(calls)
                /\ pc = "done"
                /\ outcome.kind = "error"
                /\ tokenInfo = None
                /\ CallsOf({"sdk.tokenLaunch.createTokenInfoAndMetadata"}) = {}
                /\ Cardinality(CallsOf(FetchOps)) = 1

\* The percentage typed is a number in [0, 100].
PercentInRange(x) ==
    x.kind = "num" /\ (x.mant = <<>> \/ x.sign = 1) /\ ~Less(NumberOf(100), x)
\* Math.round(x) for a number x >= 0 below 2^31: the whole part, and one more
\* from a fraction of one half on
RoundedWhole(x) ==
    IF x.exp >= 0 THEN x
    ELSE IF Len(x.mant) + x.exp < 0 THEN Zero(1)
    ELSE Number(1, AddBits(SubSeq(x.mant, 1, Len(x.mant) + x.exp),
                           <<x.mant[Len(x.mant) + x.exp + 1]>>), 0)
\* round(p * 100) for p in [0, 100]
RoundedBps(x) == RoundedWhole(Times(x, 100))
\* For each percentage explored: whether the number parseFloat reads from it
\* is in range and, when it is, round(p * 100); as a table.
TypedLine(x) == [inRange |-> PercentInRange(x),
                 roundedBps |-> IF PercentInRange(x) THEN RoundedBps(x) ELSE NaN]
Typed == [line \in PercentLines |-> TypedLine(ParseFloat(line))]
\* The sum creatorFeeBps + feeShareBps, as a real number, of every pair the
\* sessions explored compute; as a table.
SplitOf(p) == <<p.creatorFeeBps, p.feeShareBps>>
SplitSum(split) == IF split[1] = None \/ split[2] = None THEN NaN ELSE Sum(split[1][1], split[2][1])
SplitSums == [split \in {SplitOf(SessionParams[a]) : a \in DOMAIN SessionParams} |-> SplitSum(split)]
\* An interactive session that asked for fee sharing.
AskedFeeShare == "confirm" \in answers.answered /\ UsesFeeShare(answers) /\ params # NoParams

\* C19: for every percentage in [0, 100] typed in the interactive launch, the
\* two bps values computed from it sum to exactly 10000.  Violated: 0.07 gives
\* 0.07 * 100 = 7.000000000000001 (7 + 2^-50) for the creator and
\* 10000 - 7.000000000000001 = 9993 for the partner, the difference being
\* rounded to the nearest number; the two sum to 10000 + 2^-50.
C19_InteractiveSplitSums ==
    (AskedFeeShare /\ Typed[answers.creatorPercent].inRange) =>
        SplitSums[SplitOf(params)] = NumberOf(TotalBps)

\* C20: for every percentage p in [0, 100] typed, 0 and 100 included, the
\* split computed is round(p * 100) and 10000 minus that; an empty line gives
\* 1000 / 9000.
C20_SplitIsRoundedPercent ==
    AskedFeeShare =>
        /\ Typed[answers.creatorPercent].inRange =>
               /\ params.creatorFeeBps[1] = Typed[answers.creatorPercent].roundedBps
               /\ params.feeShareBps[1] =
                      Minus(NumberOf(TotalBps), Typed[answers.creatorPercent].roundedBps)
        /\ answers.creatorPercent = <<>> =>
               /\ params.creatorFeeBps[1] = NumberOf(DefaultCreatorFeeBps)
               /\ params.feeShareBps[1] = NumberOf(DefaultFeeShareBps)

\* C21: in fee-share setup a transaction is signed and sent exactly when
\* createFeeShareConfig returned one: every fee-share transaction sent is the
\* signed copy of the transaction returned just before, a returned
\* transaction is what the setup sends next, and when none is returned the
\* setup sends nothing and returns the configuration key and the partner
\* wallet, the launch transaction being built next.
C21_FeeShareTxIffReturned ==
    op = "launchToken" =>
        /\ \A k \in CallsOf({"connection.sendTransaction"}) :
               calls[k].tx.kind = "feeShare" =>
                   /\ k > 2
                   /\ calls[k - 2].op = "sdk.config.createFeeShareConfig"
                   /\ calls[k - 2].result = "ok"
                   /\ calls[k - 2].tx # NoTx
                   /\ ~calls[k - 2].tx.signed
                   /\ calls[k].tx = Sign(calls[k - 2].tx)
        /\ \A j \in CallsOf({"sdk.config.createFeeShareConfig"}) :
               /\ (calls[j].result = "ok" /\ calls[j].tx # NoTx) =>
                      /\ j = Len(calls) =>
                             (pc = "sendTransaction" /\ transaction = Sign(calls[j].tx))
                      /\ j < Len(calls) =>
                             calls[j + 1].op = "connection.getLatestBlockhash"
                      /\ j + 1 < Len(calls) =>
                             /\ calls[j + 2].op = "connection.sendTransaction"
                             /\ calls[j + 2].tx = Sign(calls[j].tx)
               /\ (calls[j].result = "ok" /\ calls[j].tx = NoTx) =>
                      /\ \A k \in CallsOf(ConnectionOps) : calls[k].tx.kind # "feeShare"
                      /\ \E i \in 1..Len(trace) : trace[i] = "FEE_SHARE_CONFIGURED"
                      /\ finalConfigKey = FeeShareConfigKey(tokenInfo[1])
                      /\ feeShareWallet = fsWallet /\ feeShareWallet # None
                      /\ j < Len(calls) =>
                             calls[j + 1].op = "sdk.tokenLaunch.createLaunchTransaction"

\* C21 witness: a launch whose fee-share configuration came without a
\* transaction reached CONFIRMED.
C21_Witness ==
    /\ op = "launchToken"
    /\ trace # <<>> /\ Last(trace) = "CONFIRMED"
    /\ \E j \in CallsOf({"sdk.config.createFeeShareConfig"}) :
           calls[j].result = "ok" /\ calls[j].tx = NoTx
    /\ outcome.feeShareWallet # None

\* The launch transactions the running launch has built or sent.
LaunchTxCalls ==
    {k \in CallsOf({"sdk.tokenLaunch.createLaunchTransaction",
                    "connection.sendTransaction"}) : calls[k].tx.kind = "launch"}

\* C22: the launch transaction names the token identity this launch's publish
\* produced (the identity stands for the mint and its metadata URI) and the
\* wallet's resolved configuration key without fee sharing, the token's
\* fee-share configuration key with it; the LaunchResult carries that mint
\* and key, the signature of that transaction, and a feeShareWallet exactly
\* when fee sharing was requested.
C22_LaunchTxReferences ==
    op = "launchToken" =>
        LET wanted == IF TruthyStr(params.feeShareTwitter)
                         THEN [type |-> "feeShare", mint |-> tokenInfo[1]]
                         ELSE [type |-> "wallet", mint |-> 0]
        IN  /\ \A k \in LaunchTxCalls :
                   /\ tokenInfo # None
                   /\ calls[k].tx.mint = tokenInfo[1]
                   /\ tokenInfo[1] <= published
                   /\ \E j \in 1..(k - 1) :
                          /\ calls[j].op = "sdk.tokenLaunch.createTokenInfoAndMetadata"
                          /\ calls[j].result = "ok"
                   /\ calls[k].tx.configKey = wanted
                   /\ ~TruthyStr(params.feeShareTwitter) =>
                          (calls[k].tx.configKey = configResponse /\ configResponse \in resolved)
            /\ outcome.kind = "result" =>
                   /\ outcome.tokenMint = tokenInfo[1]
                   /\ outcome.configKey = wanted
                   /\ outcome.feeShareWallet # None <=> TruthyStr(params.feeShareTwitter)
                   /\ \E t \in landed :
                          /\ t.sig = outcome.signature
                          /\ t.tx.kind = "launch"
                          /\ t.tx.mint = outcome.tokenMint
                          /\ t.tx.configKey = outcome.configKey
            /\ \A t \in landed :
                   t.tx.kind = "launch" => \A u \in landed :
                       (u.tx.kind = "launch" /\ u.tx.mint = t.tx.mint) => u = t

\* C22 witness: the second token published was launched with fee sharing.
C22_Witness ==
    /\ op = "launchToken" /\ outcome.kind = "result"
    /\ TruthyStr(params.feeShareTwitter)
    /\ outcome.tokenMint = 2
    /\ outcome.configKey.type = "feeShare"

\* The running launch reached CONFIRMED; a record of its token is on disk.
Confirmed == trace # <<>> /\ Last(trace) = "CONFIRMED"
Exited == cli.stage \in {"exit0", "exit1"}
RecordsOf(mint) == {r \in records : r.file = mint}
Saved == tokenInfo # None /\ RecordsOf(tokenInfo[1]) # {}


\* Token identities referenced by launch transactions confirmed without error.
LaunchedMints == {t.tx.mint : t \in {l \in landed : l.tx.kind = "launch"}}
Reached(phase) == phase \in {trace[i] : i \in 1..Len(trace)}

\* C24: every launchToken call that resolved the configuration enters the
\* metadata publisher, whatever earlier attempts did; every attempt that
\* reaches METADATA_PUBLISHED adds one published identity, which is the
\* attempt's own and none of an earlier attempt; launch transactions confirmed
\* without error reference distinct published identities, each at most once,
\* and the identity of an attempt that failed before its launch transaction
\* was accepted is referenced by none.
C24_RetryRepublishes ==
    /\ [][Len(trace') > Len(trace) /\ Last(trace') = "CONFIG_RESOLVED" =>
            pc' = "createTokenInfo"]_vars
    /\ [][Len(trace') > Len(trace) /\ Last(trace') = "METADATA_PUBLISHED" =>
            /\ published' = published + 1
            /\ tokenInfo' = Some(published')
            /\ published' \notin LaunchedMints
            /\ Last(calls').op = "sdk.tokenLaunch.createTokenInfoAndMetadata"]_vars
    /\ [](tokenInfo # None => tokenInfo[1] = published)
    /\ [](/\ LaunchedMints \subseteq 1..published
          /\ \A s, t \in landed :
               s.tx.kind = "launch" /\ t.tx.kind = "launch" /\ s.tx.mint = t.tx.mint => s = t)
    /\ [](/\ tokenInfo # None /\ pc = "done" /\ Last(trace) = "FAILED"
          /\ \A k \in CallsOf({"connection.sendTransaction"}) :
               calls[k].tx.kind = "launch" => calls[k].result # "ok"
          => tokenInfo[1] \notin LaunchedMints)

\* C24 witness: the first attempt published an identity and failed, the
\* second attempt published another one and its launch was confirmed: two
\* published identities, only the second referenced.
C24_Witness ==
    /\ launchNo = 2 /\ published = 2
    /\ pc = "done" /\ Last(trace) = "CONFIRMED"
    /\ tokenInfo = Some(2)
    /\ LaunchedMints = {2}

\* C25: every transaction given to connection.sendTransaction, whether for
\* the configuration, the fee-share configuration, the launch or a claim, is
\* signed: the transaction sendTransaction holds is signed from its entry on,
\* the SDK's unsigned answer is never the one sent, and everything the network
\* accepted or confirmed was signed.
C25_SignedBeforeSent ==
    /\ \A k \in CallsOf({"connection.sendTransaction"}) :
           /\ calls[k].tx.signed
           /\ calls[k].tx.kind \in TxKinds
    /\ pc = "sendTransaction" => transaction.signed /\ transaction.kind \in TxKinds
    /\ \A t \in landed : t.tx.signed
    /\ \A k \in CallsOf({"sdk.config.getOrCreateConfig", "sdk.config.createFeeShareConfig",
                         "sdk.tokenLaunch.createLaunchTransaction",
                         "sdk.fee.getClaimTransaction"}) :
           ~calls[k].tx.signed

\* C25 witness: one launch sent a configuration transaction, a fee-share
\* transaction and the launch transaction, all three confirmed.
C25_Witness ==
    /\ pc = "done" /\ Confirmed
    /\ \A kind \in {"config", "feeShare", "launch"} :
          \E k \in CallsOf({"connection.sendTransaction"}) :
              calls[k].tx.kind = kind /\ calls[k].result = "ok" /\ calls[k].tx.signed

\* Both bps values are supplied and lie in 0..10000.
ExplicitSplit(p) ==
    /\ p.creatorFeeBps # None /\ p.feeShareBps # None
    /\ p.creatorFeeBps[1] \in 0..TotalBps
    /\ p.feeShareBps[1] \in 0..TotalBps

\* C26 as stated: when both bps values are supplied in 0..10000 (0 included)
\* together with a handle, the entry list sent to createFeeShareConfig carries
\* creatorFeeBps for the caller's wallet and feeShareBps for the partner's.
C26_ExplicitBpsUnchanged ==
    ExplicitSplit(params) =>
        \A k \in CallsOf({"sdk.config.createFeeShareConfig"}) :
            /\ calls[k].users[1] = <<CallerWallet, params.creatorFeeBps[1]>>
            /\ calls[k].users[2][2] = params.feeShareBps[1]
            /\ fsWallet # None /\ calls[k].users[2][1] = fsWallet

\* The last question of the session was answered.
AnsweredLast(a) == "confirm" \in a.answered

\* C27: when the last prompt of launchInteractive is answered with anything
\* but y or Y, launchInteractive ends with the cancellation error, and the
\* step that reads the answer enters no launch and makes no call: launchToken
\* is not called, no SDK, connection or fetch call is added, no sequencer
\* phase is entered, and the network and the protocol are left as they were.
\* What a launch of another caller has done and is doing is left as it is.
C27_CancelledMakesNoCall ==
    /\ [](AnsweredLast(answers) /\ answers.confirm \notin {<<"y">>, <<"Y">>} =>
            prompt = "LaunchCancelled")
    /\ [][prompt = "confirm" /\ AnsweredLast(answers') /\
              answers'.confirm \notin {<<"y">>, <<"Y">>} =>
            /\ prompt' = "LaunchCancelled"
            /\ UNCHANGED <<launchNo, op, pc, calls, trace, outcome, locals, txVars, envVars,
                           parked>>]_vars

\* C27 witness: an interactive launch with fee sharing was cancelled at the
\* last prompt while the quick launch of another caller was under way, its
\* token published; that launch is the only one entered.
C27_Witness ==
    /\ AnsweredLast(answers) /\ answers.confirm = <<"n">> /\ answers.useFeeShare = <<"Y">>
    /\ prompt = "LaunchCancelled"
    /\ op = "launchToken" /\ pc \notin {"idle", "done"}
    /\ params = NoParams
    /\ launchNo = 1 /\ calls # <<>> /\ published = 1

====
